---- MODULE Spec2Model ----
(***************************************************************************)
(* lightauth: pay-per-request HTTP authorization over Lightning invoices.  *)
(* State machine of the server middleware (server.go), the invoice model   *)
(* (invoice.go), the client library (client.go) and the two settlement     *)
(* reconcilers (setup.go), with the Lightning node and the persistence     *)
(* backend as environment.                                                 *)
(*                                                                         *)
(* Strings are tuples: "" is <<>>, a token is <<"tok", k>>, a payment      *)
(* request is <<"lnbc", n>>, a hex string is a tuple of nibbles.  Byte     *)
(* strings are tuples of numbers below 256.  Times are milliseconds.       *)
(***************************************************************************)
EXTENDS Integers, Sequences, FiniteSets, TLC

VARIABLES
    now,           \* wall clock, what time.Now() returns
    clients,       \* serverStore[route].Clients : route -> token -> Client
    nextInv,       \* number of invoices the node has issued (AddInvoice)
    paid,          \* invoices the node has seen paid (pre-image released)
    serverStream,  \* SubscribeInvoices updates not yet received by the server
    clientStream,  \* SendPayment responses not yet received by the client
    req,           \* the HTTP request threads of the server: slot -> thread state
    faults,        \* failures of the node and of the database injected so far
    clientStore,   \* client side: url -> Path
    app,           \* the client application thread that calls ClearRequest / ReadResponse
    mux            \* the entity mutexes: who holds each, and the lock operations
                   \* each thread still has to do in the code it is running

vars == <<now, clients, nextInv, paid, serverStream, clientStream, req,
          faults, clientStore, app, mux>>

----------------------------------------------------------------------------
(* Bounds of the model *)

MaxTokens == 2
MaxInv == 3
NumReq == 2
MaxTicks == 3
RouteMaxInvoices == 2
MaxFaults == 1

----------------------------------------------------------------------------
(* Program constants *)

Millisecond == 1
Second == 1000 * Millisecond
Minute == 60 * Second

StatusOK == 200
StatusBadRequest == 400
StatusPaymentRequired == 402
StatusConflict == 409
StatusInternalServerError == 500

lOOPTHRESHOLD == 500

TickStep == Second \div 2
MaxTime == MaxTicks * TickStep

EmptyStr == <<>>

\* lightauth.toml: one discrete route, one time route; "GET/u" is not configured
RouteInfo ==
    [r \in {"GET/d", "GET/t"} |->
        IF r = "GET/d"
        THEN [Name |-> "GET/d", Fee |-> 10, MaxInvoices |-> RouteMaxInvoices,
              Mode |-> "discrete", Period |-> ""]
        ELSE [Name |-> "GET/t", Fee |-> 1, MaxInvoices |-> RouteMaxInvoices,
              Mode |-> "time", Period |-> "second"]]

RouteNames == {"GET/d", "GET/t", "GET/u"}

Reqs == 1..NumReq
InvIds == 1..MaxInv

----------------------------------------------------------------------------
(* Encodings and the Lightning node's functions *)

Max(a, b) == IF a >= b THEN a ELSE b

\* crypto/sha256 on a byte string: an injective byte-wise map that is not the identity
Sha256(bytes) == [k \in 1..Len(bytes) |-> (bytes[k] * 7 + 3) % 256]

\* hex.EncodeToString: two nibbles per byte
HexEncode(bytes) ==
    [k \in 1..(2 * Len(bytes)) |->
        IF k % 2 = 1 THEN bytes[(k + 1) \div 2] \div 16 ELSE bytes[k \div 2] % 16]

\* hex.DecodeString: fails on odd length or on a character that is no hex digit
HexDecode(s) ==
    IF Len(s) % 2 = 1 \/ \E k \in 1..Len(s) : s[k] \notin 0..15
    THEN [err |-> TRUE, bytes |-> <<>>]
    ELSE [err |-> FALSE,
          bytes |-> [k \in 1..(Len(s) \div 2) |-> s[2 * k - 1] * 16 + s[2 * k]]]

NonHexStr == <<16, 16>>

\* the node: payment request, pre-image and payment hash of its n-th invoice
PayReq(n) == <<"lnbc", n>>
PreImageOf(n) == <<n>>
RHash(n) == Sha256(PreImageOf(n))

\* time.Time.Format("2006-01-02T15:04:05Z07:00") then time.Parse: whole seconds survive
FormatRFC3339(t) == (t \div Second) * Second

\* switch on Route.Period / Path.TimePeriod, default millisecond
PeriodDuration(p) ==
    CASE p = "millisecond" -> Millisecond
      [] p = "second" -> Second
      [] p = "minute" -> Minute
      [] OTHER -> Millisecond

----------------------------------------------------------------------------
(* invoice.go *)

NewInvoice(n, t) ==
    [PaymentRequest |-> PayReq(n), Settled |-> FALSE, Claimed |-> FALSE,
     PaymentHash |-> RHash(n), PreImage |-> <<>>,
     ExpirationTime |-> t + 59 * Minute]

\* Invoice.settle
settle(i, preImage) == [i EXCEPT !.Settled = TRUE, !.PreImage = preImage]

\* Invoice.isSettled
isSettled(i) == i.Settled

\* Invoice.isClaimed
isClaimed(i) == i.Claimed

\* Invoice.claim
claim(i) == [i EXCEPT !.Claimed = TRUE]

----------------------------------------------------------------------------
(* server.go: response writer *)

IdleReq ==
    [pc |-> "idle", origin |-> "none", route |-> "", token |-> EmptyStr,
     inv |-> EmptyStr, pre |-> EmptyStr, client |-> EmptyStr,
     status |-> 0, msg |-> "", handler |-> 0,
     hConst |-> FALSE, hToken |-> EmptyStr, hInvoices |-> <<>>, hExp |-> <<>>,
     hInvoice |-> EmptyStr, hStatus |-> <<>>, sawClaimed |-> FALSE,
     unpayed |-> {}]

\* http.Error: the first status written wins
HttpError(s, msg, code) ==
    IF s.status = 0 THEN [s EXCEPT !.status = code, !.msg = msg] ELSE s

\* w.Header().Set: a header set after the status line was written is not sent
SetHeader(s, field, value) ==
    IF s.status = 0 THEN [s EXCEPT ![field] = value] ELSE s

\* what the wrapped application handler may do about Light-Auth-Status, a
\* header the middleware itself never sets: leave it out, or set it to 200
HandlerHeaders == {<<>>, <<StatusOK>>}

\* the wrapped application handler: sets its headers, writes its body, 200
\* unless a status was sent
Handler(s, hs) ==
    [SetHeader(s, "hStatus", hs) EXCEPT
        !.handler = @ + 1, !.status = IF @ = 0 THEN StatusOK ELSE @]

Done(s) == [s EXCEPT !.pc = "done"]

----------------------------------------------------------------------------
(* server.go: Client records and header emission *)

Tokens == UNION {DOMAIN clients[rt] : rt \in DOMAIN RouteInfo}

\* uniuri.New(): a token no Client has yet
NewToken == <<"tok", Cardinality(Tokens) + 1>>

\* a token that was never issued
BogusToken == <<"tok", 0>>

\* &Client{Token: token, Invoices: map[string]*Invoice{}, ExpirationTime: time.Now(), Route: rt}
\* (Created remembers the first ExpirationTime)
NewClient(token, t) ==
    [Token |-> token, ExpirationTime |-> t, Invoices |-> <<>>, Created |-> t]

\* the loop of Client.getUnpayedInvoices without its isSettled test
Unpayed_All(c) == DOMAIN c.Invoices

\* the loop of Client.getUnpayedInvoices: the invoices that are not settled
Unpayed(c) == {p \in DOMAIN c.Invoices : ~isSettled(c.Invoices[p])}

\* outcome of one round of Client.generateInvoices:
\*   "ok": AddInvoice and save succeed;  "saveErr": database.Create fails;
\*   "rpcErr": AddInvoice fails
Outcomes == {"ok", "saveErr", "rpcErr"}

\* how many invoices the node issues for a sequence of outcomes
Issued(outcomes) ==
    LET errs == {k \in 1..Len(outcomes) : outcomes[k] = "rpcErr"}
    IN  IF errs = {} THEN Len(outcomes)
        ELSE (CHOOSE k \in errs : \A j \in errs : k <= j) - 1

\* how many rounds of a sequence of outcomes fail
Failures(outcomes) == Cardinality({k \in 1..Len(outcomes) : outcomes[k] # "ok"})

\* Client.generateInvoices: c with the saved invoices stored, the invoices
\* returned, and whether AddInvoice failed
RECURSIVE generateInvoices(_, _, _, _)
generateInvoices(c, outcomes, next, t) ==
    IF outcomes = <<>>
    THEN [c |-> c, invoices |-> {}, err |-> FALSE]
    ELSE IF Head(outcomes) = "rpcErr"
    THEN [c |-> c, invoices |-> {}, err |-> TRUE]
    ELSE LET i == NewInvoice(next + 1, t)
             c1 == IF Head(outcomes) = "ok"
                   THEN [c EXCEPT !.Invoices = @ @@ (i.PaymentRequest :> i)]
                   ELSE c
             rest == generateInvoices(c1, Tail(outcomes), next + 1, t)
         IN  [rest EXCEPT !.invoices = @ \cup {i}]

\* number of invoices getUnpayedInvoices asks generateInvoices for
Shortfall(c, rt) == Max(0, RouteInfo[rt].MaxInvoices - Cardinality(Unpayed(c)))

\* Client.getUnpayedInvoices if it also restarted the Client's time window
getUnpayedInvoices_Renews(c, outcomes, next, t) ==
    LET old == {c.Invoices[p] : p \in Unpayed(c)}
        gen == generateInvoices([c EXCEPT !.ExpirationTime = t], outcomes, next, t)
    IN  IF gen.err
        THEN [c |-> gen.c, invoices |-> {}, err |-> TRUE]
        ELSE [c |-> gen.c, invoices |-> old \cup gen.invoices, err |-> FALSE]

\* Client.getUnpayedInvoices
getUnpayedInvoices(c, outcomes, next, t) ==
    LET old == {c.Invoices[p] : p \in Unpayed(c)}
        gen == generateInvoices(c, outcomes, next, t)
    IN  IF outcomes = <<>>
        THEN [c |-> c, invoices |-> old, err |-> FALSE]
        ELSE IF gen.err
        THEN [c |-> gen.c, invoices |-> {}, err |-> TRUE]
        ELSE [c |-> gen.c, invoices |-> old \cup gen.invoices, err |-> FALSE]

\* getInvoicesJSON: the Light-Auth-Invoices header, [{payment_request, expiration_time}, ...]
getInvoicesJSON(invoices) ==
    {[payment_request |-> i.PaymentRequest, expiration_time |-> i.ExpirationTime] :
        i \in invoices}

\* writeConstantHeaders
writeConstantHeaders(s) == SetHeader(s, "hConst", TRUE)

\* writeClientHeaders without its w.Header().Set calls
writeClientHeaders_Unset(s, rt, c, unpayed) ==
    IF unpayed.err
    THEN Done(HttpError(s, "Something went wrong", StatusInternalServerError))
    ELSE [s EXCEPT !.pc = "validate"]

\* writeClientHeaders, given the outcome of getUnpayedInvoices
writeClientHeaders(s, rt, c, unpayed) ==
    IF unpayed.err
    THEN Done(HttpError(s, "Something went wrong", StatusInternalServerError))
    ELSE LET s1 == SetHeader(s, "hToken", c.Token)
             s2 == SetHeader(s1, "hInvoices", <<getInvoicesJSON(unpayed.invoices)>>)
             s3 == IF RouteInfo[rt].Mode = "time"
                   THEN SetHeader(s2, "hExp", <<FormatRFC3339(c.ExpirationTime)>>)
                   ELSE s2
         IN  [s3 EXCEPT !.pc = "validate"]

----------------------------------------------------------------------------
(* server.go: ServerMiddleware up to the mode validator *)

\* hexPreImage != hexPaymentHash
credentialsMismatch_Unchecked(preImage, paymentHash) == FALSE

credentialsMismatch(preImage, paymentHash) ==
    HexEncode(Sha256(preImage)) # HexEncode(paymentHash)

\* discreteTypeValidator: the checks of the request headers against the
\* Client's invoice (steps that read nothing another thread writes)
\* discreteTypeValidator if an invoice that is not in the Client's map were
\* let through
discreteValidate_AnyOwner(s, c) ==
    IF s.inv = EmptyStr
    THEN Done(HttpError(s, "Lightauth error: Missing invoice ID", StatusBadRequest))
    ELSE IF s.pre = EmptyStr
    THEN Done(HttpError(s, "Lightauth error: Missing pre_image", StatusBadRequest))
    ELSE IF s.inv \notin DOMAIN c.Invoices
    THEN Done(Handler(SetHeader(s, "hInvoice", s.inv), <<>>))
    ELSE IF HexDecode(s.pre).err
    THEN Done(HttpError(s, "Lightauth error: Invalid credentials", StatusBadRequest))
    ELSE IF credentialsMismatch(HexDecode(s.pre).bytes, c.Invoices[s.inv].PaymentHash)
    THEN Done(HttpError(s, "Lightauth error: Invalid credentials", StatusBadRequest))
    ELSE [s EXCEPT !.pc = "isClaimed"]

discreteValidate(s, c) ==
    IF s.inv = EmptyStr
    THEN Done(HttpError(s, "Lightauth error: Missing invoice ID", StatusBadRequest))
    ELSE IF s.pre = EmptyStr
    THEN Done(HttpError(s, "Lightauth error: Missing pre_image", StatusBadRequest))
    ELSE IF s.inv \notin DOMAIN c.Invoices
    THEN Done(HttpError(s, "Lightauth error: Invalid credentials", StatusBadRequest))
    ELSE IF HexDecode(s.pre).err
    THEN Done(HttpError(s, "Lightauth error: Invalid credentials", StatusBadRequest))
    ELSE IF credentialsMismatch(HexDecode(s.pre).bytes, c.Invoices[s.inv].PaymentHash)
    THEN Done(HttpError(s, "Lightauth error: Invalid credentials", StatusBadRequest))
    ELSE [s EXCEPT !.pc = "isClaimed"]

\* the mode validator is entered: the time validator reads the clock and the
\* Client in a step of its own, the discrete validator checks the headers
dispatch(s, rt, c) ==
    IF s.pc # "validate" \/ RouteInfo[rt].Mode = "time" THEN s
    ELSE discreteValidate(s, c)


\* serverStore[routeName] exists
routeExists(rt) == rt \in DOMAIN RouteInfo

\* route not configured: the wrapped handler gets the request as it is
passThrough_Refused(s, hs) ==
    Done(HttpError(s, "Route is not configured", StatusInternalServerError))

passThrough(s, hs) == Done(Handler(s, hs))

\* rt.Clients[token] does not exist
invalidToken_PaymentRequired(s) ==
    Done(HttpError(s, "Lightauth error: Invalid token", StatusPaymentRequired))

invalidToken(s) == Done(HttpError(s, "Lightauth error: Invalid token", StatusBadRequest))

\* the lowest idle request thread takes the next request
FreeSlot(r) ==
    /\ req[r].pc = "idle"
    /\ \A q \in Reqs : q < r => req[q].pc # "idle"

\* ServerMiddleware, from the route lookup to the end of header emission and,
\* in discrete mode, of the header checks of the validator
ServerMiddleware(r, origin, rt, token, inv, pre) ==
    /\ FreeSlot(r)
    /\ LET s0 == [IdleReq EXCEPT !.origin = origin, !.route = rt, !.token = token,
                                 !.inv = inv, !.pre = pre]
       IN
       IF ~routeExists(rt)
       THEN /\ \E hs \in HandlerHeaders : req' = [req EXCEPT ![r] = passThrough(s0, hs)]
            /\ UNCHANGED <<clients, nextInv, faults>>
       ELSE IF token = EmptyStr /\ Cardinality(Tokens) >= MaxTokens
       THEN FALSE
       ELSE \E createOk \in BOOLEAN :
            IF token = EmptyStr /\ ~createOk
            THEN \* c.save() failed
                 /\ faults < MaxFaults
                 /\ faults' = faults + 1
                 /\ req' = [req EXCEPT ![r] =
                        Done(HttpError(s0, "Something went wrong", StatusInternalServerError))]
                 /\ UNCHANGED <<clients, nextInv>>
            ELSE LET tok == IF token = EmptyStr THEN NewToken ELSE token
                     cs == IF token = EmptyStr
                           THEN clients[rt] @@ (tok :> NewClient(tok, now))
                           ELSE clients[rt]
                     s1 == writeConstantHeaders(s0)
                 IN
                 IF tok \notin DOMAIN cs
                 THEN /\ req' = [req EXCEPT ![r] = invalidToken(s1)]
                      /\ UNCHANGED <<clients, nextInv, faults>>
                 ELSE \E outcomes \in [1..Shortfall(cs[tok], rt) -> Outcomes] :
                      /\ nextInv + Issued(outcomes) <= MaxInv
                      /\ faults + Failures(outcomes) <= MaxFaults
                      /\ faults' = faults + Failures(outcomes)
                      /\ LET unpayed == getUnpayedInvoices(cs[tok], outcomes, nextInv, now)
                         IN
                         /\ clients' = [clients EXCEPT ![rt] =
                                            [cs EXCEPT ![tok] = unpayed.c]]
                         /\ nextInv' = nextInv + Issued(outcomes)
                         /\ req' = [req EXCEPT ![r] =
                                dispatch(writeClientHeaders([s1 EXCEPT !.client = tok],
                                                            rt, unpayed.c, unpayed),
                                         rt, unpayed.c)]

----------------------------------------------------------------------------
(* server.go: header emission in two steps. Client.getUnpayedInvoices holds
   no lock between its count of the unsettled invoices and the insertion of
   the invoices generateInvoices gets from the node (an RPC), so requests
   that carry the same token can interleave there. *)

\* ServerMiddleware for a request with the token of a Client, up to the loop
\* of getUnpayedInvoices that collects the invoices that are not settled
getUnpayedInvoicesCount(r, rt, token) ==
    /\ FreeSlot(r)
    /\ token \in DOMAIN clients[rt]
    /\ req' = [req EXCEPT ![r] =
                [writeConstantHeaders([IdleReq EXCEPT !.origin = "raw", !.route = rt,
                                                      !.token = token])
                    EXCEPT !.pc = "generate", !.client = token,
                           !.unpayed = Unpayed(clients[rt][token])]]
    /\ UNCHANGED <<clients, nextInv, faults>>

\* the rest of getUnpayedInvoices, with the number counted before:
\* generateInvoices for the shortfall, then the headers and the validator
getUnpayedInvoicesGenerate(r) ==
    /\ req[r].pc = "generate"
    /\ LET rt == req[r].route
           c == clients[rt][req[r].client]
           numUnpayed == Cardinality(req[r].unpayed)
       IN  \E outcomes \in [1..Max(0, RouteInfo[rt].MaxInvoices - numUnpayed) -> Outcomes] :
            /\ nextInv + Issued(outcomes) <= MaxInv
            /\ faults + Failures(outcomes) <= MaxFaults
            /\ faults' = faults + Failures(outcomes)
            /\ nextInv' = nextInv + Issued(outcomes)
            /\ LET gen == generateInvoices(c, outcomes, nextInv, now)
                   unpayed == [c |-> gen.c, err |-> gen.err,
                               invoices |->
                                  IF gen.err THEN {}
                                  ELSE {gen.c.Invoices[p] : p \in req[r].unpayed}
                                          \cup gen.invoices]
               IN  /\ clients' = [clients EXCEPT ![rt][req[r].client] = gen.c]
                   /\ req' = [req EXCEPT ![r] =
                        dispatch(writeClientHeaders([@ EXCEPT !.unpayed = {}],
                                                    rt, gen.c, unpayed),
                                 rt, gen.c)]

----------------------------------------------------------------------------
(* server.go: the mode validators *)

\* c.ExpirationTime.Before(t)
expired_NotAfter(expirationTime, t) == expirationTime <= t

expired(expirationTime, t) == expirationTime < t

\* timeTypeValidator
timeValidate(s, c, t, hs) ==
    IF expired(c.ExpirationTime, t)
    THEN Done(HttpError(s, "Lightauth error: Your authorized time has expired, pay up some balances to buy more time",
                        StatusPaymentRequired))
    ELSE Done(Handler(s, hs))

timeTypeValidator(r) ==
    /\ req[r].pc = "validate"
    /\ RouteInfo[req[r].route].Mode = "time"
    /\ \E hs \in HandlerHeaders :
        req' = [req EXCEPT ![r] = timeValidate(@, clients[@.route][@.client], now, hs)]
    /\ UNCHANGED <<clients, nextInv, faults>>

\* discreteTypeValidator: the isClaimed check
discreteCheckClaimed(s, i) ==
    IF isClaimed(i)
    THEN \* http.Error without a return: the validator goes on to isSettled
         [HttpError(s, "Lightauth error: Invoice has already been claimed",
                    StatusBadRequest)
            EXCEPT !.pc = "isSettled", !.sawClaimed = TRUE]
    ELSE [s EXCEPT !.pc = "isSettled"]

discreteIsClaimed(r) ==
    /\ req[r].pc = "isClaimed"
    /\ req' = [req EXCEPT ![r] =
                 discreteCheckClaimed(@, clients[@.route][@.client].Invoices[@.inv])]
    /\ UNCHANGED <<clients, nextInv, faults>>

\* discreteTypeValidator: the isSettled check
discreteCheckSettled_Skipped(s, i) == [s EXCEPT !.pc = "claim"]

discreteCheckSettled_NoReturn(s, i) ==
    IF ~isSettled(i)
    THEN [HttpError(s, "Lightauth error: We can't validate your payment yet, please try again",
                    StatusConflict) EXCEPT !.pc = "claim"]
    ELSE [s EXCEPT !.pc = "claim"]

discreteCheckSettled(s, i) ==
    IF ~isSettled(i)
    THEN Done(HttpError(s, "Lightauth error: We can't validate your payment yet, please try again",
                        StatusConflict))
    ELSE [s EXCEPT !.pc = "claim"]

discreteIsSettled(r) ==
    /\ req[r].pc = "isSettled"
    /\ req' = [req EXCEPT ![r] =
                 discreteCheckSettled(@, clients[@.route][@.client].Invoices[@.inv])]
    /\ UNCHANGED <<clients, nextInv, faults>>

\* the invoice number of a payment request
InvId(p) == p[2]

\* discreteTypeValidator if it echoed the invoice and ran the handler without
\* the call of claim
discreteClaim_Unrecorded(r) ==
    /\ req[r].pc = "claim"
    /\ \E hs \in HandlerHeaders :
        req' = [req EXCEPT ![r] = Done(Handler(SetHeader(@, "hInvoice", @.inv), hs))]
    /\ UNCHANGED <<clients, nextInv, faults>>

\* discreteTypeValidator: claim, echo the invoice, run the handler
\* (claim saves with database.Edit, which cannot fail: the invoice has an ID)
discreteClaim(r) ==
    /\ req[r].pc = "claim"
    /\ LET s == req[r]
       IN  /\ clients' = [clients EXCEPT ![s.route][s.client].Invoices[s.inv] = claim(@)]
           /\ \E hs \in HandlerHeaders :
                req' = [req EXCEPT ![r] = Done(Handler(SetHeader(s, "hInvoice", s.inv), hs))]
    /\ UNCHANGED <<nextInv, faults>>

----------------------------------------------------------------------------
(* server.go, setup.go: the server's settlement reconciler *)

\* the additive extension of updateInvoice and Path.updateBalance
extend_FromNow(expirationTime, t, timePeriod) == t + timePeriod

extend(expirationTime, t, timePeriod) ==
    IF expirationTime > t
    THEN t + timePeriod + (expirationTime - t)
    ELSE t + timePeriod

\* updateInvoice on one Client record
updateClient(c, rt, paymentRequest, t) ==
    IF paymentRequest \notin DOMAIN c.Invoices
    THEN c
    ELSE LET c1 == [c EXCEPT !.Invoices[paymentRequest] = settle(@, <<>>)]
         IN  IF RouteInfo[rt].Mode = "time"
             THEN [c1 EXCEPT !.ExpirationTime =
                        extend(@, t, PeriodDuration(RouteInfo[rt].Period))]
             ELSE c1

\* updateInvoice: payment requests are unique, at most one Client holds it
updateInvoice(store, paymentRequest, t) ==
    [rt \in DOMAIN store |->
        [tok \in DOMAIN store[rt] |->
            updateClient(store[rt][tok], rt, paymentRequest, t)]]

\* what Recv() returns instead of a message: io.EOF, or another error
RecvEOF == [RecvErr |-> "EOF"]
RecvFailure == [RecvErr |-> "transport"]

\* the error Recv() returned with stream item m, "" when m is a message
recvErr(m) == IF "RecvErr" \in DOMAIN m THEN m.RecvErr ELSE ""

\* one round of the loop of StartServerConnection: the loop returns on io.EOF
\* (no further round), logs any other error and goes on with a nil update
ServerRecv ==
    /\ serverStream # <<>>
    /\ recvErr(Head(serverStream)) # "EOF"
    /\ serverStream' = Tail(serverStream)
    /\ clients' = IF recvErr(Head(serverStream)) = "" /\ Head(serverStream).Settled
                  THEN updateInvoice(clients, Head(serverStream).PaymentRequest, now)
                  ELSE clients
    /\ UNCHANGED <<mux, now, nextInv, paid, clientStream, req, faults, clientStore, app>>

----------------------------------------------------------------------------
(* The Lightning node: SendPayment *)

\* the node's answers to one SendRequest for invoice n: an invoice paid for
\* the first time is reported settled on SubscribeInvoices and its pre-image
\* is returned; a second payment of the same invoice is refused
SendResponse(n, alreadyPaid) ==
    IF alreadyPaid
    THEN [PaymentError |-> "invoice is already paid", PaymentPreimage |-> <<>>]
    ELSE [PaymentError |-> "", PaymentPreimage |-> PreImageOf(n)]

RECURSIVE SendAll(_, _)
\* the node after SendRequests for the invoices of order, in that order
SendAll(order, node) ==
    IF order = <<>> THEN node
    ELSE LET n == Head(order)
             was == n \in node.paid
         IN  SendAll(Tail(order),
                [paid |-> node.paid \cup {n},
                 clientStream |-> Append(node.clientStream, SendResponse(n, was)),
                 serverStream |-> IF was THEN node.serverStream
                                  ELSE Append(node.serverStream,
                                         [PaymentRequest |-> PayReq(n), Settled |-> TRUE])])

\* the orders in which a set can be enumerated (Go map iteration order is not fixed)
Orders(S) ==
    {o \in [1..Cardinality(S) -> S] : \A a, b \in DOMAIN o : a # b => o[a] # o[b]}

----------------------------------------------------------------------------
(* client.go: Path *)

URLs == {"h/d", "h/t"}

\* request.URL.Host + request.URL.Path  ->  r.Method + r.URL.Path on the server
RouteOf(u) == IF u = "h/d" THEN "GET/d" ELSE "GET/t"

\* getPaymentHash: DecodePayReq(...).PaymentHash, a hex string
getPaymentHash(paymentRequest) == HexEncode(RHash(InvId(paymentRequest)))

\* Invoice.isExpired
isExpired(i, t) == i.ExpirationTime < t

\* Path.getUnclaimedInvoices
getUnclaimedInvoices(p) ==
    {h \in DOMAIN p.Invoices : p.Invoices[h].Settled /\ ~p.Invoices[h].Claimed}

\* Path.canRequest
canRequest(p, t) ==
    IF p.Mode = "time"
    THEN p.LocalExpirationTime > t
    ELSE Cardinality(getUnclaimedInvoices(p)) > 0

\* Path.updateBalance
updateBalance(p, t) ==
    IF p.Mode = "time"
    THEN [p EXCEPT !.LocalExpirationTime = extend(@, t, PeriodDuration(p.TimePeriod))]
    ELSE p

\* confirmInvoiceSettled on one Path
confirmOnPath(p, preImage, t) ==
    LET paymentHash == HexEncode(Sha256(preImage))
    IN  IF paymentHash \in DOMAIN p.Invoices
        THEN updateBalance([p EXCEPT !.Invoices[paymentHash] = settle(@, preImage)], t)
        ELSE p

\* the Paths that hold the invoice of the pre-image
holders(store, preImage) ==
    {u \in DOMAIN store : HexEncode(Sha256(preImage)) \in DOMAIN store[u].Invoices}

\* confirmInvoiceSettled without the break of its loop
confirmInvoiceSettled_NoBreak(store, preImage, t, first) ==
    [u \in DOMAIN store |-> confirmOnPath(store[u], preImage, t)]

\* confirmInvoiceSettled: first is the first Path of the range over
\* clientStore that holds the invoice; the loop breaks after it
confirmInvoiceSettled(store, preImage, t, first) ==
    [store EXCEPT ![first] = confirmOnPath(@, preImage, t)]

\* the client loop on a Recv error that is not io.EOF: log.Fatalf ends the
\* process, the application thread with it
recvFailed(a) == [a EXCEPT !.pc = "exited"]

\* one round of the loop of StartClientConnection: the loop returns on io.EOF
\* (no further round)
ClientRecv ==
    /\ app.pc # "exited"
    /\ clientStream # <<>>
    /\ recvErr(Head(clientStream)) # "EOF"
    /\ clientStream' = Tail(clientStream)
    /\ IF recvErr(Head(clientStream)) # ""
       THEN /\ app' = recvFailed(app)
            /\ clientStore' = clientStore
       ELSE /\ app' = app
            /\ LET preImage == Head(clientStream).PaymentPreimage
               IN  IF \/ Head(clientStream).PaymentError # ""
                      \/ holders(clientStore, preImage) = {}
                   THEN clientStore' = clientStore
                   ELSE \E first \in holders(clientStore, preImage) :
                        clientStore' = confirmInvoiceSettled(clientStore, preImage,
                                                            now, first)
    /\ UNCHANGED <<mux, now, clients, nextInv, paid, serverStream, req, faults>>

\* ReadResponse that takes every response for a 200
LightAuthStatus_AlwaysOK(s) == [err |-> FALSE, code |-> StatusOK]

\* strconv.Atoi(readHeader(r.Header, "Light-Auth-Status")): the number the
\* header holds, or an error when the response has no such header
LightAuthStatus(s) ==
    IF s.hStatus = <<>> THEN [err |-> TRUE, code |-> 0]
    ELSE [err |-> FALSE, code |-> s.hStatus[1]]

\* getInvoicesFromResponse: payment hash -> Invoice, or an error
getInvoicesFromResponse(s) ==
    IF ~s.hConst \/ s.hInvoices = <<>>
    THEN [err |-> TRUE, invoices |-> <<>>]
    ELSE LET json == s.hInvoices[1]
             hashes == {getPaymentHash(j.payment_request) : j \in json}
         IN  [err |-> FALSE,
              invoices |->
                [h \in hashes |->
                    LET j == CHOOSE j \in json : getPaymentHash(j.payment_request) = h
                    IN  [PaymentRequest |-> j.payment_request,
                         Fee |-> RouteInfo[s.route].Fee,
                         PaymentHash |-> HexDecode(h).bytes,
                         ExpirationTime |-> j.expiration_time,
                         Settled |-> FALSE, Claimed |-> FALSE, PreImage |-> <<>>]]]

\* ReadResponse: the invoices of the response that the Path does not hold yet are added
harvest_Overwrite(p, invoices) ==
    [p EXCEPT !.Invoices =
        [h \in DOMAIN p.Invoices \cup DOMAIN invoices |->
            IF h \in DOMAIN invoices THEN invoices[h] ELSE p.Invoices[h]]]

\* ReadResponse if an advertised invoice the Path holds were taken as unpaid
harvest_Unsettle(p, invoices) ==
    [p EXCEPT !.Invoices =
        [h \in DOMAIN p.Invoices \cup DOMAIN invoices |->
            IF h \in DOMAIN p.Invoices
            THEN IF h \in DOMAIN invoices
                 THEN [p.Invoices[h] EXCEPT !.Settled = FALSE]
                 ELSE p.Invoices[h]
            ELSE invoices[h]]]

harvest(p, invoices) ==
    [p EXCEPT !.Invoices =
        [h \in DOMAIN p.Invoices \cup DOMAIN invoices |->
            IF h \in DOMAIN p.Invoices THEN p.Invoices[h] ELSE invoices[h]]]

\* ReadResponse, status 200, discrete mode: the invoices the header names are claimed
claimNamed(p, invoiceID) ==
    [p EXCEPT !.Invoices =
        [h \in DOMAIN p.Invoices |->
            IF p.Invoices[h].PaymentRequest = invoiceID
            THEN claim(p.Invoices[h]) ELSE p.Invoices[h]]]

\* ReadResponse, after the Path lookup: the Path after the call and the error
readResponse(p, s) ==
    LET got == getInvoicesFromResponse(s)
        p1 == harvest(p, got.invoices)
    IN  IF LightAuthStatus(s).err THEN [path |-> p, err |-> TRUE]
        ELSE IF got.err THEN [path |-> p, err |-> TRUE]
        ELSE IF LightAuthStatus(s).code = StatusOK
        THEN IF p.Mode = "time"
             THEN IF s.hExp = <<>>
                  THEN [path |-> p1, err |-> TRUE]
                  ELSE [path |-> [p1 EXCEPT !.SyncExpirationTime = s.hExp[1]],
                        err |-> FALSE]
             ELSE IF \E h \in DOMAIN p1.Invoices :
                        p1.Invoices[h].PaymentRequest = s.hInvoice
                  THEN [path |-> claimNamed(p1, s.hInvoice), err |-> FALSE]
                  ELSE [path |-> p1, err |-> FALSE]
        ELSE [path |-> p1, err |-> TRUE]

\* clientStore[u] exists
pathExists_Never(u) == FALSE

pathExists(u) == u \in DOMAIN clientStore

\* ReadResponse for a URL that has no Path
notConfigured_Silent(store) == [store |-> store, err |-> FALSE]

notConfigured(store) == [store |-> store, err |-> TRUE]

\* ReadResponse: the client store after the call and the error
readResponseAt(store, u, s) ==
    IF u \notin DOMAIN store THEN notConfigured(store)
    ELSE [store |-> [store EXCEPT ![u] = readResponse(@, s).path],
          err |-> readResponse(store[u], s).err]

\* ClearRequest, discovery: the Path built from the response of the bare GET
\* (Seed remembers the first LocalExpirationTime)
discover(u, s) ==
    LET got == getInvoicesFromResponse(s)
        mode == RouteInfo[s.route].Mode
        p == [Invoices |-> got.invoices, Token |-> s.hToken,
              Fee |-> RouteInfo[s.route].Fee,
              MaxInvoices |-> RouteInfo[s.route].MaxInvoices,
              Mode |-> mode, URL |-> u, TimePeriod |-> "",
              LocalExpirationTime |-> 0, SyncExpirationTime |-> 0, Seed |-> 0]
    IN  IF got.err THEN [err |-> TRUE, stored |-> FALSE, path |-> <<>>]
        ELSE IF mode = "time"
        THEN IF s.hExp = <<>>
             THEN [err |-> TRUE, stored |-> TRUE, path |-> p]
             ELSE [err |-> FALSE, stored |-> TRUE,
                   path |-> [p EXCEPT !.SyncExpirationTime = s.hExp[1],
                                      !.LocalExpirationTime = s.hExp[1],
                                      !.Seed = s.hExp[1],
                                      !.TimePeriod = RouteInfo[s.route].Period]]
        ELSE [err |-> FALSE, stored |-> TRUE, path |-> p]

----------------------------------------------------------------------------
(* client.go: ClearRequest and ReadResponse, called by the application thread *)

\* the application thread: where it is in its call, the request ClearRequest
\* hands back (token, inv, pre) and the error of its last call
IdleApp ==
    [pc |-> "idle", url |-> "", slot |-> 0, start |-> 0,
     token |-> EmptyStr, inv |-> EmptyStr, pre |-> EmptyStr, err |-> FALSE]

\* ClearRequest if it paid whatever the balance of the Path
toPay_Unconditional(p, t) ==
    {h \in DOMAIN p.Invoices :
        ~isSettled(p.Invoices[h]) /\ ~isExpired(p.Invoices[h], t)}

\* ClearRequest: the invoices it pays, those neither settled nor expired, when
\* the Path has nothing to spend
toPay(p, t) ==
    LET flag == IF p.Mode = "time"
                THEN p.SyncExpirationTime < t
                ELSE Cardinality(getUnclaimedInvoices(p)) < 1
    IN  IF flag
        THEN {h \in DOMAIN p.Invoices :
                ~isSettled(p.Invoices[h]) /\ ~isExpired(p.Invoices[h], t)}
        ELSE {}

\* ClearRequest from the token header to the start of the wait loop:
\* makePayment for every invoice to pay, in map order
ClearRequestPay(u, p) ==
    \E order \in Orders(toPay(p, now)) :
        LET ids == [k \in DOMAIN order |-> InvId(p.Invoices[order[k]].PaymentRequest)]
            node == SendAll(ids, [paid |-> paid, clientStream |-> clientStream,
                                  serverStream |-> serverStream])
        IN  /\ Len(node.clientStream) <= MaxInv   \* bound on the unread responses
            /\ paid' = node.paid
            /\ clientStream' = node.clientStream
            /\ serverStream' = node.serverStream
            /\ app' = [IdleApp EXCEPT !.pc = "wait", !.url = u, !.start = now,
                                      !.token = p.Token]

\* ClearRequest for a URL that has no Path: the bare GET reaches the server
ClearRequestDiscover(u) ==
    /\ app.pc = "idle"
    /\ now <= MaxTime
    /\ ~pathExists(u)
    /\ \E r \in Reqs :
        /\ ServerMiddleware(r, "lib", RouteOf(u), EmptyStr, EmptyStr, EmptyStr)
        /\ app' = [IdleApp EXCEPT !.pc = "discovering", !.url = u, !.slot = r]
    /\ UNCHANGED <<mux, now, paid, serverStream, clientStream, clientStore>>

\* ClearRequest: the response of the bare GET arrives, the Path is built and
\* the call goes on to pay
ClearRequestDiscovered ==
    /\ app.pc = "discovering"
    /\ req[app.slot].pc = "done"
    /\ req' = [req EXCEPT ![app.slot] = IdleReq]
    /\ LET d == discover(app.url, req[app.slot])
       IN  /\ clientStore' = IF d.stored
                             THEN [u \in DOMAIN clientStore \cup {app.url} |->
                                      IF u = app.url THEN d.path ELSE clientStore[u]]
                             ELSE clientStore
           /\ IF d.err
              THEN /\ app' = [IdleApp EXCEPT !.err = TRUE]
                   /\ UNCHANGED <<paid, serverStream, clientStream>>
              ELSE ClearRequestPay(app.url, d.path)
    /\ UNCHANGED <<mux, now, clients, nextInv, faults>>

\* the URL of a request of the library
URLOf(rt) == CHOOSE u \in URLs : RouteOf(u) = rt

\* a request slot that holds the response to the bare GET of a second
\* goroutine of the application, which called ClearRequest for the same URL
\* and found no Path either
OtherDiscovering(r) == req[r].pc = "done" /\ req[r].origin = "lib2"

\* ClearRequest in the second goroutine: its response arrives, its Path goes
\* into clientStore under the same key and it pays the invoices of that Path;
\* its wait loop and its scan for the proof only read
ClearRequestDiscoveredOther ==
    \E r \in Reqs :
        /\ OtherDiscovering(r)
        /\ app.pc # "exited"
        /\ req' = [req EXCEPT ![r] = IdleReq]
        /\ LET u == URLOf(req[r].route)
               d == discover(u, req[r])
           IN  /\ clientStore' = IF d.stored
                                 THEN [v \in DOMAIN clientStore \cup {u} |->
                                          IF v = u THEN d.path ELSE clientStore[v]]
                                 ELSE clientStore
               /\ IF d.err
                  THEN UNCHANGED <<paid, serverStream, clientStream>>
                  ELSE \E order \in Orders(toPay(d.path, now)) :
                       LET ids == [k \in DOMAIN order |->
                                     InvId(d.path.Invoices[order[k]].PaymentRequest)]
                           node == SendAll(ids, [paid |-> paid,
                                                 clientStream |-> clientStream,
                                                 serverStream |-> serverStream])
                       IN  /\ Len(node.clientStream) <= MaxInv
                           /\ paid' = node.paid
                           /\ clientStream' = node.clientStream
                           /\ serverStream' = node.serverStream
        /\ UNCHANGED <<mux, now, clients, nextInv, faults, app>>

\* both goroutines assign to clientStore at the same time: the Go runtime may
\* stop the process with "fatal error: concurrent map writes"
ConcurrentMapWrites ==
    /\ app.pc = "discovering"
    /\ req[app.slot].pc = "done"
    /\ discover(app.url, req[app.slot]).stored
    /\ \E r \in Reqs :
        /\ OtherDiscovering(r)
        /\ discover(URLOf(req[r].route), req[r]).stored
    /\ app' = [app EXCEPT !.pc = "exited"]
    /\ UNCHANGED <<mux, now, clients, nextInv, paid, serverStream, clientStream,
                   req, faults, clientStore>>

\* ClearRequest for a URL that has a Path
ClearRequest(u) ==
    /\ app.pc = "idle"
    /\ now <= MaxTime
    /\ pathExists(u)
    /\ ClearRequestPay(u, clientStore[u])
    /\ UNCHANGED <<mux, now, clients, nextInv, req, faults, clientStore>>

\* the wait loop without its threshold test
timedOut_Never(start, t) == FALSE

\* time.Since(startTime) > time.Millisecond*time.Duration(lOOPTHRESHOLD)
timedOut(start, t) == t - start > Millisecond * lOOPTHRESHOLD

\* ClearRequest, the scan for the proof: v.isSettled() && !v.isClaimed()
spendable_Any(i) == TRUE

spendable(i) == isSettled(i) /\ ~isClaimed(i)

\* ClearRequest: the wait loop ends and the call returns; in discrete mode the
\* proof of one spendable invoice is attached, and without one the call
\* returns an error
ClearRequestReturn ==
    /\ app.pc = "wait"
    /\ LET p == clientStore[app.url]
           found == {h \in DOMAIN p.Invoices : spendable(p.Invoices[h])}
       IN  /\ canRequest(p, now) \/ timedOut(app.start, now)
           /\ IF p.Mode = "discrete"
              THEN IF found = {}
                   THEN app' = [IdleApp EXCEPT !.token = p.Token, !.err = TRUE]
                   ELSE \E h \in found :
                        app' = [app EXCEPT !.pc = "ready",
                                           !.pre = HexEncode(p.Invoices[h].PreImage),
                                           !.inv = p.Invoices[h].PaymentRequest]
              ELSE app' = [app EXCEPT !.pc = "ready"]
    /\ UNCHANGED <<mux, now, clients, nextInv, paid, serverStream, clientStream, req,
                   faults, clientStore>>

\* the application sends the request ClearRequest handed back
Send ==
    /\ app.pc = "ready"
    /\ \E r \in Reqs :
        /\ ServerMiddleware(r, "lib", RouteOf(app.url), app.token, app.inv, app.pre)
        /\ app' = [IdleApp EXCEPT !.pc = "sent", !.url = app.url, !.slot = r]
    /\ UNCHANGED <<mux, now, paid, serverStream, clientStream, clientStore>>

\* ReadResponse on the response of the request that was sent
ReadResponse ==
    /\ app.pc = "sent"
    /\ req[app.slot].pc = "done"
    /\ LET res == readResponseAt(clientStore, app.url, req[app.slot])
       IN  /\ clientStore' = res.store
           /\ app' = [IdleApp EXCEPT !.err = res.err]
    /\ req' = [req EXCEPT ![app.slot] = IdleReq]
    /\ UNCHANGED <<mux, now, clients, nextInv, paid, serverStream, clientStream,
                   faults>>

\* a response the application got without the library, for a Path-less URL
StrayResponse ==
    [IdleReq EXCEPT !.pc = "done", !.origin = "lib", !.route = "GET/d",
                    !.status = StatusOK, !.hStatus = <<StatusOK>>, !.hConst = TRUE,
                    !.hToken = BogusToken, !.hInvoice = PayReq(1),
                    !.hInvoices = <<{[payment_request |-> PayReq(1),
                                      expiration_time |-> 59 * Minute]}>>]

\* a URL the application never passes to ClearRequest
StrayURL == "h/x"

\* ReadResponse called for a URL that ClearRequest never cleared
ReadResponseStray(u) ==
    /\ app.pc = "idle"
    /\ ~pathExists(u)
    /\ LET res == readResponseAt(clientStore, u, StrayResponse)
       IN  /\ clientStore' = res.store
           /\ app' = [IdleApp EXCEPT !.url = u, !.err = res.err]
    /\ UNCHANGED <<mux, now, clients, nextInv, paid, serverStream, clientStream, req,
                   faults>>

----------------------------------------------------------------------------
(* Callers that do not use the client library, and the clock *)

\* the header values such a caller can send
RawTokens == {EmptyStr, BogusToken} \cup Tokens
RawInvoices == {EmptyStr} \cup {PayReq(n) : n \in 1..nextInv}
RawPreImages ==
    {EmptyStr, NonHexStr, HexEncode(<<0>>)} \cup {HexEncode(PreImageOf(n)) : n \in paid}

\* a request to one of the routes rts
RawRequest(r, rts) ==
    /\ \E rt \in rts, token \in RawTokens :
        IF routeExists(rt) /\ RouteInfo[rt].Mode = "discrete"
        THEN \E inv \in RawInvoices, pre \in RawPreImages :
                ServerMiddleware(r, "raw", rt, token, inv, pre)
        ELSE ServerMiddleware(r, "raw", rt, token, EmptyStr, EmptyStr)
    /\ UNCHANGED <<mux, now, paid, serverStream, clientStream, clientStore, app>>

\* the response has been sent, the request thread ends
RawRespond(r) ==
    /\ req[r].pc = "done"
    /\ req[r].origin = "raw"
    /\ req' = [req EXCEPT ![r] = IdleReq]
    /\ UNCHANGED <<mux, now, clients, nextInv, paid, serverStream, clientStream,
                   faults, clientStore, app>>

\* no finished request thread is about to end: the end of a thread touches
\* nothing but the thread, so it is taken before any other step
Quiet == \A r \in Reqs : ~(req[r].pc = "done" /\ req[r].origin = "raw")

\* somebody pays invoice n through another node connection
RawPay(n) ==
    /\ n \in 1..nextInv
    /\ n \notin paid
    /\ paid' = paid \cup {n}
    /\ serverStream' = Append(serverStream, [PaymentRequest |-> PayReq(n), Settled |-> TRUE])
    /\ UNCHANGED <<mux, now, clients, nextInv, clientStream, req, faults,
                   clientStore, app>>

\* the node reports the settlement of invoice n once more
Redeliver(n) ==
    /\ n \in paid
    /\ faults < MaxFaults
    /\ faults' = faults + 1
    /\ serverStream' = Append(serverStream, [PaymentRequest |-> PayReq(n), Settled |-> TRUE])
    /\ UNCHANGED <<mux, now, clients, nextInv, paid, clientStream, req, clientStore, app>>

\* a stream of the node fails: the next Recv() on it returns io.EOF or
\* another error
StreamFault(m) ==
    /\ faults < MaxFaults
    /\ faults' = faults + 1
    /\ \/ /\ clientStream' = Append(clientStream, m)
          /\ Len(clientStream) < MaxInv
          /\ UNCHANGED serverStream
       \/ /\ serverStream' = Append(serverStream, m)
          /\ Len(serverStream) < MaxInv
          /\ UNCHANGED clientStream
    /\ UNCHANGED <<mux, now, clients, nextInv, paid, req, clientStore, app>>

\* time passes; the clock of the model stops at MaxTime unless a wait loop of
\* ClearRequest is still inside its threshold
Tick ==
    /\ \/ now < MaxTime
       \/ app.pc = "wait" /\ now - app.start <= Millisecond * lOOPTHRESHOLD
    /\ now' = now + TickStep
    /\ UNCHANGED <<mux, clients, nextInv, paid, serverStream, clientStream, req,
                   faults, clientStore, app>>

\* the steps of a request thread after header emission
TimeStep(r) ==
    /\ timeTypeValidator(r)
    /\ UNCHANGED <<mux, now, paid, serverStream, clientStream, clientStore, app>>

DiscreteStep(r) ==
    /\ \/ discreteIsClaimed(r)
       \/ discreteIsSettled(r)
       \/ discreteClaim(r)
    /\ UNCHANGED <<mux, now, paid, serverStream, clientStream, clientStore, app>>

----------------------------------------------------------------------------
(* The entity mutexes: invoice.go, client.go and server.go lock a sync.Mutex
   of the Invoice, the Path or the Client record inside their accessors. *)

\* the threads of the server process (request handlers, the loop of
\* StartServerConnection) and of the client process (the application that
\* calls ClearRequest and ReadResponse, the loop of StartClientConnection)
Handlers == {<<"handler", r>> : r \in Reqs}
Threads == Handlers \cup {<<"serverLoop", 0>>, <<"app", 0>>, <<"clientLoop", 0>>}

\* the invoices each side holds in this part of the model
MuxInvoices == 1..2

\* the mutexes: of the Client record and its Invoices on the server, of the
\* Path and its Invoices on the client
Mutexes ==
    {<<"Client", 0>>, <<"Path", 0>>}
        \cup {<<"Invoice", n>> : n \in MuxInvoices}
        \cup {<<"PathInvoice", n>> : n \in MuxInvoices}

\* an accessor: m.Lock(); defer m.Unlock(); the body, which calls save() at
\* most, locks nothing
Locked(m) == <<[op |-> "Lock", mux |-> m], [op |-> "Unlock", mux |-> m]>>

\* ServerMiddleware for a known Client: getUnpayedInvoices calls isSettled on
\* every invoice; the discrete validator then calls isClaimed, isSettled and
\* claim on the invoice n the request names; the time validator locks nothing
handlerLocks(mode, n) ==
    Locked(<<"Invoice", 1>>) \o Locked(<<"Invoice", 2>>)
        \o (IF mode = "discrete"
            THEN Locked(<<"Invoice", n>>) \o Locked(<<"Invoice", n>>)
                    \o Locked(<<"Invoice", n>>)
            ELSE <<>>)

\* updateInvoice: i.settle, then in time mode c.getExpirationTime and
\* c.setExpirationTime
updateInvoiceLocks(mode, n) ==
    Locked(<<"Invoice", n>>)
        \o (IF mode = "time"
            THEN Locked(<<"Client", 0>>) \o Locked(<<"Client", 0>>)
            ELSE <<>>)

\* confirmInvoiceSettled if updateBalance were called inside Invoice.settle
confirmInvoiceSettledLocks_Nested(mode, n) ==
    IF mode = "time"
    THEN <<[op |-> "Lock", mux |-> <<"PathInvoice", n>>]>>
            \o Locked(<<"Path", 0>>) \o Locked(<<"Path", 0>>)
            \o <<[op |-> "Unlock", mux |-> <<"PathInvoice", n>>]>>
    ELSE Locked(<<"PathInvoice", n>>)

\* confirmInvoiceSettled: i.settle, then p.updateBalance, which in time mode
\* calls getLocalExpirationTime and setLocalExpirationTime
confirmInvoiceSettledLocks(mode, n) ==
    Locked(<<"PathInvoice", n>>)
        \o (IF mode = "time"
            THEN Locked(<<"Path", 0>>) \o Locked(<<"Path", 0>>)
            ELSE <<>>)

\* ClearRequest for a known Path: v.isSettled() on every invoice when it
\* pays; canRequest in the wait loop (getLocalExpirationTime in time mode);
\* in discrete mode the scan calls isSettled and isClaimed on invoice n
ClearRequestLocks(mode, pays, n) ==
    (IF pays THEN Locked(<<"PathInvoice", 1>>) \o Locked(<<"PathInvoice", 2>>)
             ELSE <<>>)
        \o (IF mode = "time" THEN Locked(<<"Path", 0>>)
            ELSE Locked(<<"PathInvoice", n>>) \o Locked(<<"PathInvoice", n>>))

\* ReadResponse on a 200 response: setSyncExpirationTime in time mode,
\* claim on the echoed invoice n in discrete mode
ReadResponseLocks(mode, n) ==
    IF mode = "time" THEN Locked(<<"Path", 0>>)
    ELSE Locked(<<"PathInvoice", n>>)

\* the lock operations of the code a thread may run next
Programs(t) ==
    LET modes == {"time", "discrete"}
    IN  CASE t[1] = "handler" ->
                {handlerLocks(md, n) : md \in modes, n \in MuxInvoices}
          [] t[1] = "serverLoop" ->
                {updateInvoiceLocks(md, n) : md \in modes, n \in MuxInvoices}
          [] t[1] = "clientLoop" ->
                {confirmInvoiceSettledLocks(md, n) : md \in modes, n \in MuxInvoices}
          [] t[1] = "app" ->
                {ClearRequestLocks(md, pays, n) :
                    md \in modes, pays \in BOOLEAN, n \in MuxInvoices}
                \cup {ReadResponseLocks(md, n) : md \in modes, n \in MuxInvoices}

\* no mutex is held and no thread is inside code that locks
IdleMux ==
    [owner |-> [m \in Mutexes |-> <<"free", 0>>],
     todo |-> [t \in Threads |-> <<>>]]

\* the mutexes thread t holds
HeldBy(t) == {m \in Mutexes : mux.owner[m] = t}

\* thread t enters a piece of code
Call(t) ==
    /\ mux.todo[t] = <<>>
    /\ \E ops \in Programs(t) : mux' = [mux EXCEPT !.todo[t] = ops]

\* sync.Mutex.Lock: blocks while the mutex is held
Lock(t) ==
    /\ mux.todo[t] # <<>>
    /\ Head(mux.todo[t]).op = "Lock"
    /\ mux.owner[Head(mux.todo[t]).mux] = <<"free", 0>>
    /\ mux' = [mux EXCEPT !.owner[Head(mux.todo[t]).mux] = t,
                          !.todo[t] = Tail(@)]

\* sync.Mutex.Unlock, deferred to the return of the accessor
Unlock(t) ==
    /\ mux.todo[t] # <<>>
    /\ Head(mux.todo[t]).op = "Unlock"
    /\ mux' = [mux EXCEPT !.owner[Head(mux.todo[t]).mux] = <<"free", 0>>,
                          !.todo[t] = Tail(@)]

MuxNext ==
    /\ \E t \in Threads : Call(t) \/ Lock(t) \/ Unlock(t)
    /\ UNCHANGED <<now, clients, nextInv, paid, serverStream, clientStream, req,
                   faults, clientStore, app>>

----------------------------------------------------------------------------
(* Specifications *)

Init ==
    /\ now = 0
    /\ clients = [rt \in DOMAIN RouteInfo |-> <<>>]
    /\ nextInv = 0
    /\ mux = IdleMux
    /\ paid = {}
    /\ serverStream = <<>>
    /\ clientStream = <<>>
    /\ req = [r \in Reqs |-> IdleReq]
    /\ faults = 0
    /\ clientStore = <<>>
    /\ app = IdleApp

\* the environment of the server: payments, settlement notifications, time
ServerEnv ==
    \/ \E n \in InvIds : RawPay(n)
    \/ ServerRecv
    \/ Tick

\* the discrete route (and the route that is not configured) with callers of any
\* kind; the discrete validator never reads the clock, which stands still here
DiscreteNext ==
    \/ \E r \in Reqs : RawRespond(r)
    \/ Quiet /\ \E r \in Reqs : RawRequest(r, {"GET/d", "GET/u"})
    \/ Quiet /\ \E r \in Reqs : DiscreteStep(r)
    \/ Quiet /\ \E n \in InvIds : RawPay(n)
    \/ Quiet /\ ServerRecv

\* the time route (and the route that is not configured) with callers of any kind
TimeNext ==
    \/ \E r \in Reqs : RawRespond(r)
    \/ Quiet /\ \E r \in Reqs : RawRequest(r, {"GET/t", "GET/u"})
    \/ Quiet /\ \E r \in Reqs : TimeStep(r)
    \/ Quiet /\ ServerEnv

\* the client library
LibNext(urls) ==
    \/ \E u \in urls : ClearRequestDiscover(u)
    \/ ClearRequestDiscovered
    \/ \E u \in urls : ClearRequest(u)
    \/ ClearRequestReturn
    \/ Send
    \/ ReadResponse
    \/ \E u \in urls \cup {StrayURL} : ReadResponseStray(u)
    \/ ClientRecv

\* the client library against the discrete route
DiscreteLibNext ==
    \/ LibNext({"h/d"})
    \/ \E r \in Reqs : DiscreteStep(r)
    \/ ServerRecv
    \/ Tick

\* the client library against the time route
TimeLibNext ==
    \/ LibNext({"h/t"})
    \/ \E r \in Reqs : TimeStep(r)
    \/ ServerRecv
    \/ Tick

\* the time route when the node may repeat a settlement notification
TimeDupNext ==
    \/ TimeNext
    \/ Quiet /\ \E n \in InvIds : Redeliver(n)

\* the threads of both processes as far as they lock
MuxSpec == Init /\ [][MuxNext]_vars

\* the discrete route when the header emission of requests with a known
\* token runs in two steps
DiscreteRaceNext ==
    \/ DiscreteNext
    \/ /\ Quiet
       /\ \E r \in Reqs :
            \/ \E token \in DOMAIN clients["GET/d"] :
                    getUnpayedInvoicesCount(r, "GET/d", token)
            \/ getUnpayedInvoicesGenerate(r)
       /\ UNCHANGED <<mux, now, paid, serverStream, clientStream, clientStore, app>>

DiscreteRaceSpec == Init /\ [][DiscreteRaceNext]_vars

DiscreteSpec == Init /\ [][DiscreteNext]_vars
TimeSpec == Init /\ [][TimeNext]_vars
DiscreteLibSpec == Init /\ [][DiscreteLibNext]_vars
TimeLibSpec == Init /\ [][TimeLibNext]_vars

\* the client library against the discrete route when the streams may fail
DiscreteFaultNext ==
    \/ DiscreteLibNext
    \/ \E m \in {RecvEOF, RecvFailure} : StreamFault(m)

DiscreteFaultSpec == Init /\ [][DiscreteFaultNext]_vars
TimeDupSpec == Init /\ [][TimeDupNext]_vars

\* fair scheduling of the library specifications: the stream loops, the clock,
\* the request threads of the server and the wait loop of ClearRequest keep
\* running, and the application sends the request it cleared and reads the
\* response it got
LibFairness ==
    /\ WF_vars(ClientRecv)
    /\ WF_vars(ServerRecv)
    /\ WF_vars(Tick)
    /\ WF_vars(ClearRequestDiscovered)
    /\ WF_vars(ClearRequestReturn)
    /\ WF_vars(Send)
    /\ WF_vars(ReadResponse)

DiscreteLibFairSpec ==
    DiscreteLibSpec /\ LibFairness /\ WF_vars(\E r \in Reqs : DiscreteStep(r))

TimeLibFairSpec ==
    TimeLibSpec /\ LibFairness /\ WF_vars(\E r \in Reqs : TimeStep(r))

----------------------------------------------------------------------------
(* ReadResponse as a function of its inputs: the Path of the URL and the
   response. ReadResponse is exported and takes any response, also one of a
   server that mirrors the status in Light-Auth-Status. *)

\* an invoice of a Path: "open", "settled" (by confirmInvoiceSettled, with the
\* pre-image of its payment hash) or "claimed" (settled, then claimed)
ReadInvoice(n, st, rt) ==
    [PaymentRequest |-> PayReq(n), Fee |-> RouteInfo[rt].Fee,
     PaymentHash |-> RHash(n), ExpirationTime |-> 59 * Minute,
     Settled |-> st # "open", Claimed |-> st = "claimed",
     PreImage |-> IF st = "open" THEN <<>> ELSE PreImageOf(n)]

\* the states an invoice of a Path of mode md can be in; "none": not held
ReadInvoiceStates(md) ==
    IF md = "time" THEN {"none", "open", "settled"}
    ELSE {"none", "open", "settled", "claimed"}

\* the Path of URL u that holds invoice n in state f[n], for n = 1, 2
ReadPath(u, f, sync, local) ==
    LET rt == RouteOf(u)
        held == {n \in DOMAIN f : f[n] # "none"}
    IN  [Invoices |->
            [h \in {getPaymentHash(PayReq(n)) : n \in held} |->
                LET n == CHOOSE n \in held : getPaymentHash(PayReq(n)) = h
                IN  ReadInvoice(n, f[n], rt)],
         Token |-> <<"tok", 1>>, Fee |-> RouteInfo[rt].Fee,
         MaxInvoices |-> RouteInfo[rt].MaxInvoices,
         Mode |-> RouteInfo[rt].Mode, URL |-> u,
         TimePeriod |-> RouteInfo[rt].Period,
         LocalExpirationTime |-> local, SyncExpirationTime |-> sync, Seed |-> 0]

\* the status codes of the sampled responses
ReadCodes ==
    {StatusOK, StatusBadRequest, StatusPaymentRequired, StatusConflict,
     StatusInternalServerError}

\* a response to the request for u: status code, Light-Auth-Status mirrored
\* or absent, the advertised invoices, the echoed invoice, the expiration time
ReadInput(u, code, mirror, listed, echo, exp) ==
    [IdleReq EXCEPT
        !.pc = "done", !.origin = "lib", !.route = RouteOf(u),
        !.token = <<"tok", 1>>, !.client = <<"tok", 1>>,
        !.status = code, !.hStatus = IF mirror THEN <<code>> ELSE <<>>,
        !.handler = IF code = StatusOK THEN 1 ELSE 0,
        !.hConst = TRUE, !.hToken = <<"tok", 1>>,
        !.hInvoices = <<{[payment_request |-> PayReq(n),
                          expiration_time |-> 59 * Minute] : n \in listed}>>,
        !.hInvoice = echo, !.hExp = exp]

\* the application is about to call ReadResponse on a response for a Path
ReadInit ==
    /\ now = Second
    /\ clients = [rt \in DOMAIN RouteInfo |-> <<>>]
    /\ nextInv = 0
    /\ mux = IdleMux
    /\ paid = {}
    /\ serverStream = <<>>
    /\ clientStream = <<>>
    /\ faults = 0
    /\ \E u \in {"h/d", "h/t"} :
        /\ app = [IdleApp EXCEPT !.pc = "sent", !.url = u, !.slot = 1]
        /\ \E f \in [1..2 -> ReadInvoiceStates(RouteInfo[RouteOf(u)].Mode)],
              sync \in IF u = "h/t" THEN {0, Second, 2 * Second} ELSE {0},
              local \in IF u = "h/t" THEN {0, Second, 2 * Second} ELSE {0} :
            clientStore = [v \in {u} |-> ReadPath(u, f, sync, local)]
        /\ \E code \in ReadCodes, mirror \in BOOLEAN,
              listed \in {{}, {1}, {2, 3}},
              echo \in IF u = "h/d" THEN {EmptyStr, PayReq(1), PayReq(3)}
                                    ELSE {EmptyStr},
              exp \in IF u = "h/t" THEN {<<>>, <<Second>>, <<3 * Second>>}
                                   ELSE {<<>>} :
            req = [r \in Reqs |->
                     IF r = 1 THEN ReadInput(u, code, mirror, listed, echo, exp)
                     ELSE IdleReq]

ReadSpec == ReadInit /\ [][ReadResponse]_vars

(* confirmInvoiceSettled as a function of its inputs: the Paths of
   clientStore and the response of the node. Servers choose what they
   advertise, so two Paths may hold the same payment request. *)

\* the responses of the node: a pre-image of an invoice, or a refusal
ConfirmInputs ==
    {SendResponse(n, FALSE) : n \in 1..3} \cup {SendResponse(1, TRUE)}

\* the client loop is about to read a response; clientStore holds a discrete
\* and a time Path
ConfirmInit ==
    /\ now = Second
    /\ clients = [rt \in DOMAIN RouteInfo |-> <<>>]
    /\ nextInv = 0
    /\ mux = IdleMux
    /\ paid = {}
    /\ serverStream = <<>>
    /\ req = [r \in Reqs |-> IdleReq]
    /\ faults = 0
    /\ app = IdleApp
    /\ \E m \in ConfirmInputs : clientStream = <<m>>
    /\ \E fd \in [1..2 -> ReadInvoiceStates("discrete")],
          ft \in [1..2 -> ReadInvoiceStates("time")],
          local \in {0, Second, 2 * Second} :
        clientStore = [u \in {"h/d", "h/t"} |->
                         IF u = "h/d" THEN ReadPath(u, fd, 0, 0)
                                      ELSE ReadPath(u, ft, 0, local)]

ConfirmSpec == ConfirmInit /\ [][ClientRecv]_vars

(* Discovery as a function of its input: the response to the bare GET of
   ClearRequest, which any server at the URL may have written. *)

\* the response to the bare GET for u: the constant headers present or not,
\* Light-Auth-Invoices absent or listing the invoices of listed, the
\* expiration time absent or present
DiscoverInput(u, code, const, listed, exp) ==
    [ReadInput(u, code, FALSE, UNION listed, EmptyStr, exp) EXCEPT
        !.hConst = const,
        !.hInvoices = IF listed = {} THEN <<>> ELSE @]

\* ClearRequest has sent the bare GET for a URL without Path and the response
\* has arrived
DiscoverInit ==
    /\ now = Second
    /\ clients = [rt \in DOMAIN RouteInfo |-> <<>>]
    /\ nextInv = 0
    /\ mux = IdleMux
    /\ paid = {}
    /\ serverStream = <<>>
    /\ clientStream = <<>>
    /\ faults = 0
    /\ clientStore = <<>>
    /\ \E u \in {"h/d", "h/t"} :
        /\ app = [IdleApp EXCEPT !.pc = "discovering", !.url = u, !.slot = 1]
        /\ \E code \in ReadCodes, const \in BOOLEAN,
              listed \in {{}, {{}}, {{1}}, {{1, 2}}},
              exp \in {<<>>, <<0>>, <<Second>>, <<2 * Second>>} :
            req = [r \in Reqs |->
                     IF r = 1 THEN DiscoverInput(u, code, const, listed, exp)
                     ELSE IdleReq]

DiscoverSpec == DiscoverInit /\ [][ClearRequestDiscovered]_vars

(* Two goroutines of the application call ClearRequest for one URL that has
   no Path: both pass the test of clientStore, both send the bare GET, and
   the server answers each with a token and invoices of its own. *)

\* both responses have arrived
DiscoverRaceInit ==
    /\ now = Second
    /\ clients = [rt \in DOMAIN RouteInfo |-> <<>>]
    /\ nextInv = 0
    /\ mux = IdleMux
    /\ paid = {}
    /\ serverStream = <<>>
    /\ clientStream = <<>>
    /\ faults = 0
    /\ clientStore = <<>>
    /\ \E u \in URLs :
        /\ app = [IdleApp EXCEPT !.pc = "discovering", !.url = u, !.slot = 1]
        /\ \E code \in {StatusBadRequest, StatusPaymentRequired},
              const \in BOOLEAN,
              mine \in {{}, {{1}}, {{1, 2}}}, theirs \in {{}, {{3}}},
              exp \in {<<>>, <<Second>>, <<2 * Second>>} :
            req = [r \in Reqs |->
                     IF r = 1 THEN DiscoverInput(u, code, TRUE, mine, exp)
                     ELSE IF r = 2
                     THEN [DiscoverInput(u, code, const, theirs, exp) EXCEPT
                              !.origin = "lib2", !.hToken = <<"tok", 2>>]
                     ELSE IdleReq]

DiscoverRaceNext ==
    \/ ClearRequestDiscovered
    \/ ClearRequestDiscoveredOther
    \/ ConcurrentMapWrites
    \/ ClientRecv

DiscoverRaceSpec == DiscoverRaceInit /\ [][DiscoverRaceNext]_vars

(* ClearRequest as a function of its inputs: the Path of the URL, the clock
   and what the node has already been paid. *)

\* the Path of ReadPath whose invoice n expires at e[n]
PayPath(u, f, e, sync) ==
    LET p == ReadPath(u, f, sync, 0)
    IN  [p EXCEPT !.Invoices =
            [h \in DOMAIN p.Invoices |->
                [p.Invoices[h] EXCEPT !.ExpirationTime =
                    e[InvId(p.Invoices[h].PaymentRequest)]]]]

\* the application is about to call ClearRequest for a URL that has a Path;
\* the node has been paid every settled invoice, and maybe others
PayInit ==
    /\ now = Second
    /\ clients = [rt \in DOMAIN RouteInfo |-> <<>>]
    /\ nextInv = 0
    /\ mux = IdleMux
    /\ serverStream = <<>>
    /\ clientStream = <<>>
    /\ req = [r \in Reqs |-> IdleReq]
    /\ faults = 0
    /\ app = IdleApp
    /\ \E u \in {"h/d", "h/t"} :
        \E f \in [1..2 -> ReadInvoiceStates(RouteInfo[RouteOf(u)].Mode)],
           e \in [1..2 -> {0, 59 * Minute}],
           sync \in IF u = "h/t" THEN {0, Second, 2 * Second} ELSE {0} :
            /\ clientStore = [v \in {u} |-> PayPath(u, f, e, sync)]
            /\ \E more \in SUBSET {n \in 1..2 : f[n] = "open"} :
                paid = {n \in 1..2 : f[n] \in {"settled", "claimed"}} \cup more

PaySpec == PayInit /\ [][\E u \in URLs : ClearRequest(u)]_vars

----------------------------------------------------------------------------
(* Properties *)

\* the invoices of the server, <<route, token, payment request>>, and of the
\* client, <<url, payment hash>>
SrvKeys ==
    UNION {UNION {{<<rt, tok, p>> : p \in DOMAIN clients[rt][tok].Invoices} :
                    tok \in DOMAIN clients[rt]} : rt \in DOMAIN clients}
SrvAt(k) == clients[k[1]][k[2]].Invoices[k[3]]

CliKeys ==
    UNION {{<<u, h>> : h \in DOMAIN clientStore[u].Invoices} : u \in DOMAIN clientStore}
CliAt(k) == clientStore[k[1]].Invoices[k[2]]

\* the request of thread state s names an invoice of its Client and carries
\* the pre-image of that invoice's payment hash
ValidCredentials(s) ==
    /\ s.route \in DOMAIN RouteInfo
    /\ s.client \in DOMAIN clients[s.route]
    /\ s.inv \in DOMAIN clients[s.route][s.client].Invoices
    /\ ~HexDecode(s.pre).err
    /\ Sha256(HexDecode(s.pre).bytes) = clients[s.route][s.client].Invoices[s.inv].PaymentHash

\* the invoice a request with valid credentials names
Named(s) == clients[s.route][s.client].Invoices[s.inv]

\* thread r took a request in this step
Arrives(r) == req[r].pc = "idle" /\ req'[r].pc # "idle"

\* C1: a discrete request that names an already Claimed invoice (known token,
\* valid pre-image) is answered 400 "Invoice has already been claimed" and the
\* wrapped handler does not run for it.
C1_ClaimedIsRejected ==
    \A r \in Reqs :
        (req[r].pc = "done" /\ ValidCredentials(req[r]) /\ req[r].sawClaimed)
            => /\ req[r].status = 400
               /\ req[r].msg = "Lightauth error: Invoice has already been claimed"
               /\ req[r].handler = 0

\* C2: two requests that carry the same invoice never both pass the
\* isClaimed and isSettled checks before one of them marks the invoice Claimed.
C2_OneClaimer ==
    \A r1, r2 \in Reqs :
        (/\ r1 # r2
         /\ req[r1].pc = "claim" /\ req[r2].pc = "claim"
         /\ req[r1].route = req[r2].route
         /\ req[r1].client = req[r2].client
         /\ req[r1].inv = req[r2].inv)
            => (req[r1].sawClaimed \/ req[r2].sawClaimed)

\* C3: on the server and on the client, every invoice that is Claimed is Settled.
C3_ClaimedImpliesSettled ==
    /\ \A k \in SrvKeys : SrvAt(k).Claimed => SrvAt(k).Settled
    /\ \A k \in CliKeys : CliAt(k).Claimed => CliAt(k).Settled

\* the server has claimed an invoice and the client, after ReadResponse of the
\* 200 response, has claimed it too
C3_Witness ==
    /\ \E k \in SrvKeys : SrvAt(k).Claimed
    /\ \E k \in CliKeys : CliAt(k).Claimed

\* C4: an invoice that is Settled in its Client's or Path's map stays in the
\* map and stays Settled, whatever step is taken.
C4_SettledIsMonotonic ==
    [][/\ \A k \in SrvKeys :
            SrvAt(k).Settled =>
                /\ k[2] \in DOMAIN clients'[k[1]]
                /\ k[3] \in DOMAIN clients'[k[1]][k[2]].Invoices
                /\ clients'[k[1]][k[2]].Invoices[k[3]].Settled
       /\ \A k \in CliKeys :
            CliAt(k).Settled =>
                /\ k[1] \in DOMAIN clientStore'
                /\ k[2] \in DOMAIN clientStore'[k[1]].Invoices
                /\ clientStore'[k[1]].Invoices[k[2]].Settled]_vars

\* a response that still advertises an invoice the client has settled has been
\* read: the Path holds the settled invoice next to a later one, and the server
\* has settled it as well
C4_Witness ==
    /\ app.pc = "idle"
    /\ \E k \in SrvKeys : SrvAt(k).Settled
    /\ \E k1, k2 \in CliKeys :
        /\ k1[1] = k2[1]
        /\ CliAt(k1).Settled
        /\ ~CliAt(k2).Settled
        /\ InvId(CliAt(k2).PaymentRequest) > RouteMaxInvoices

\* C5: a discrete request with valid credentials whose invoice is not Settled
\* when the validator checks it is answered 409, the handler does not run and
\* no invoice changes (the invoice stays unclaimed).
C5_UnsettledIsConflict ==
    [][\A r \in Reqs :
        (/\ req[r].pc = "isSettled"
         /\ req'[r] # req[r]
         /\ ValidCredentials(req[r])
         /\ ~Named(req[r]).Claimed
         /\ ~Named(req[r]).Settled)
            => /\ req'[r].pc = "done"
               /\ req'[r].status = 409
               /\ req'[r].handler = 0
               /\ clients' = clients]_vars

\* a request with valid credentials has been answered 409 and its invoice is
\* neither settled nor claimed
C5_Witness ==
    \E r \in Reqs :
        /\ req[r].pc = "done"
        /\ req[r].status = 409
        /\ ValidCredentials(req[r])
        /\ ~Named(req[r]).Settled
        /\ ~Named(req[r]).Claimed

\* the request of thread state s reached the discrete validator and fails one
\* of its steps 1 to 5
FailsHeaderChecks(s, store) ==
    /\ s.route \in DOMAIN RouteInfo
    /\ RouteInfo[s.route].Mode = "discrete"
    /\ s.client \in DOMAIN store[s.route]
    /\ s.hInvoices # <<>>
    /\ \/ s.inv = EmptyStr
       \/ s.pre = EmptyStr
       \/ s.inv \notin DOMAIN store[s.route][s.client].Invoices
       \/ HexDecode(s.pre).err
       \/ Sha256(HexDecode(s.pre).bytes) #
            store[s.route][s.client].Invoices[s.inv].PaymentHash

\* C6: a discrete request that fails one of the validation steps 1 to 5 is
\* answered 400, the handler does not run and no invoice's Settled or Claimed
\* flag changes.
C6_BadCredentialsRejected ==
    [][\A r \in Reqs :
        (Arrives(r) /\ FailsHeaderChecks(req'[r], clients'))
            => /\ req'[r].pc = "done"
               /\ req'[r].status = 400
               /\ req'[r].handler = 0
               /\ \A k \in SrvKeys :
                    /\ clients'[k[1]][k[2]].Invoices[k[3]].Settled = SrvAt(k).Settled
                    /\ clients'[k[1]][k[2]].Invoices[k[3]].Claimed = SrvAt(k).Claimed]_vars

\* a request that names an invoice of its Client with the pre-image of another
\* invoice has been answered 400 while a settled invoice exists
C6_Witness ==
    \E r \in Reqs :
        /\ req[r].pc = "done"
        /\ req[r].status = 400
        /\ FailsHeaderChecks(req[r], clients)
        /\ req[r].inv \in DOMAIN clients[req[r].route][req[r].client].Invoices
        /\ ~HexDecode(req[r].pre).err
        /\ req[r].pre # EmptyStr
        /\ \E k \in SrvKeys : SrvAt(k).Settled

\* C7: the time validator runs the handler exactly when the Client's
\* ExpirationTime is not before now, and answers 402 without running it otherwise.
C7_TimeWindow ==
    [][\A r \in Reqs :
        (req[r].pc = "validate" /\ req'[r] # req[r])
            => LET exp == clients[req[r].route][req[r].client].ExpirationTime
               IN  /\ req'[r].pc = "done"
                   /\ (req'[r].handler = 1) <=> ~(exp < now)
                   /\ (exp < now) => (req'[r].status = 402 /\ req'[r].handler = 0)
                   /\ ~(exp < now) => req'[r].status = 200]_vars

\* a request inside a paid window has been answered 200: the Client's
\* ExpirationTime was extended by a settlement and is not before now
C7_Witness ==
    \E r \in Reqs :
        /\ req[r].pc = "done"
        /\ req[r].route = "GET/t"
        /\ req[r].status = 200
        /\ req[r].client \in DOMAIN clients["GET/t"]
        /\ clients["GET/t"][req[r].client].ExpirationTime >
              clients["GET/t"][req[r].client].Created
        /\ now > clients["GET/t"][req[r].client].Created

\* the number of settled invoices of a map
SettledCount(invoices) == Cardinality({k \in DOMAIN invoices : invoices[k].Settled})

\* C8: in time mode a settlement sets the expiration to max(old, now) + period,
\* on the server (ExpirationTime) and on the client (LocalExpirationTime), and
\* after N settlements the expiration is at least start + N * period.
C8_AdditiveExtension ==
    /\ [][/\ (serverStream # <<>> /\ serverStream' = Tail(serverStream)
                /\ Head(serverStream).Settled)
            => \A tok \in DOMAIN clients["GET/t"] :
                 Head(serverStream).PaymentRequest \in DOMAIN clients["GET/t"][tok].Invoices
                    => clients'["GET/t"][tok].ExpirationTime =
                         Max(clients["GET/t"][tok].ExpirationTime, now) + Second
          /\ (clientStream # <<>> /\ clientStream' = Tail(clientStream)
                /\ Head(clientStream).PaymentError = "")
            => \A u \in DOMAIN clientStore :
                 (/\ clientStore[u].Mode = "time"
                  /\ HexEncode(Sha256(Head(clientStream).PaymentPreimage))
                        \in DOMAIN clientStore[u].Invoices)
                    => clientStore'[u].LocalExpirationTime =
                         Max(clientStore[u].LocalExpirationTime, now) + Second]_vars
    /\ [](/\ \A tok \in DOMAIN clients["GET/t"] :
                clients["GET/t"][tok].ExpirationTime >=
                    clients["GET/t"][tok].Created
                        + SettledCount(clients["GET/t"][tok].Invoices) * Second
          /\ \A u \in DOMAIN clientStore :
                clientStore[u].Mode = "time" =>
                    clientStore[u].LocalExpirationTime >=
                        clientStore[u].Seed
                            + SettledCount(clientStore[u].Invoices) * Second)

\* two settlements have been processed on both sides, the second while credit
\* remained: both expirations are more than one period after now
C8_Witness ==
    /\ now > 0
    /\ \E tok \in DOMAIN clients["GET/t"] :
        /\ SettledCount(clients["GET/t"][tok].Invoices) = 2
        /\ clients["GET/t"][tok].ExpirationTime > now + Second
    /\ \E u \in DOMAIN clientStore :
        /\ clientStore[u].Mode = "time"
        /\ SettledCount(clientStore[u].Invoices) = 2
        /\ clientStore[u].LocalExpirationTime > now + Second

\* C9: a request to a route that is not configured goes to the wrapped handler:
\* the handler runs once, no Client is created, no invoice is generated and no
\* Light-Auth header is written.
C9_PassThrough ==
    [][\A r \in Reqs :
        (Arrives(r) /\ req'[r].route \notin DOMAIN RouteInfo)
            => /\ req'[r].pc = "done"
               /\ req'[r].handler = 1
               /\ req'[r].status = 200
               /\ clients' = clients
               /\ nextInv' = nextInv
               /\ ~req'[r].hConst
               /\ req'[r].hToken = EmptyStr
               /\ req'[r].hInvoices = <<>>
               /\ req'[r].hExp = <<>>
               /\ req'[r].hInvoice = EmptyStr]_vars

\* a request to the route that is not configured has been handled while the
\* server has Clients on its configured route
C9_Witness ==
    \E r \in Reqs :
        /\ req[r].pc = "done"
        /\ req[r].route = "GET/u"
        /\ req[r].token # EmptyStr
        /\ Tokens # {}

\* C10: a request to a configured route with a non-empty token that the route
\* does not know is answered 400 "Invalid token"; the handler does not run, no
\* Client is created and no invoice is generated.
C10_UnknownTokenRejected ==
    [][\A r \in Reqs :
        (/\ Arrives(r)
         /\ req'[r].route \in DOMAIN RouteInfo
         /\ req'[r].token # EmptyStr
         /\ req'[r].token \notin DOMAIN clients[req'[r].route])
            => /\ req'[r].pc = "done"
               /\ req'[r].status = 400
               /\ req'[r].msg = "Lightauth error: Invalid token"
               /\ req'[r].handler = 0
               /\ clients' = clients
               /\ nextInv' = nextInv]_vars

\* a request with a token that was never issued has been answered while the
\* route has a Client with another token
C10_Witness ==
    \E r \in Reqs :
        /\ req[r].pc = "done"
        /\ req[r].route = "GET/d"
        /\ req[r].token = BogusToken
        /\ req[r].status = 400
        /\ clients["GET/d"] # <<>>

\* C11: every finished response that the middleware itself wrote for a
\* configured route (the wrapped handler did not run) carries a
\* Light-Auth-Status header whose value is the HTTP status code of the response.
C11_StatusHeaderMirrors ==
    \A r \in Reqs :
        (req[r].pc = "done" /\ req[r].route \in DOMAIN RouteInfo /\ req[r].handler = 0)
            => req[r].hStatus = <<req[r].status>>

\* thread state s is in, or has been answered by, the mode validator
InValidator(s) ==
    /\ s.client # EmptyStr
    /\ s.pc # "idle"
    /\ ~(s.pc = "done" /\ s.msg = "Something went wrong")

ClientBefore(s) ==
    IF s.client \in DOMAIN clients[s.route] THEN clients[s.route][s.client]
    ELSE NewClient(s.client, now)

\* the invoices of Client c that are not settled
Unsettled(c) == {c.Invoices[p] : p \in {q \in DOMAIN c.Invoices : ~c.Invoices[q].Settled}}

\* C13: when the headers are emitted for a Client that has u unsettled
\* invoices on a route with MaxInvoices m, and nothing fails, exactly
\* max(0, m - u) invoices are requested from the node; afterwards the Client
\* has exactly max(u, m) unsettled invoices, Light-Auth-Invoices lists exactly
\* those, and no settled invoice is listed.
C13_TopUpToMaxInvoices ==
    [][\A r \in Reqs :
        (/\ Arrives(r)
         /\ req'[r].client # EmptyStr
         /\ faults' = faults)
            => LET s == req'[r]
                   u == Cardinality(Unsettled(ClientBefore(s)))
                   m == RouteInfo[s.route].MaxInvoices
                   after == clients'[s.route][s.client]
               IN  /\ nextInv' - nextInv = Max(0, m - u)
                   /\ Cardinality(Unsettled(after)) = Max(u, m)
                   /\ s.hInvoices = <<getInvoicesJSON(Unsettled(after))>>
                   /\ \A j \in s.hInvoices[1] :
                        ~after.Invoices[j.payment_request].Settled]_vars

\* a request was served for a Client that had one settled and one unsettled
\* invoice: one invoice was added, the response lists the two unsettled ones
\* and not the settled one
C13_Witness ==
    \E r \in Reqs :
        /\ req[r].pc # "idle"
        /\ req[r].client \in DOMAIN clients["GET/d"]
        /\ req[r].hInvoices # <<>>
        /\ Cardinality(req[r].hInvoices[1]) = RouteMaxInvoices
        /\ nextInv = RouteMaxInvoices + 1
        /\ \E p \in DOMAIN clients["GET/d"][req[r].client].Invoices :
            /\ clients["GET/d"][req[r].client].Invoices[p].Settled
            /\ \A j \in req[r].hInvoices[1] : j.payment_request # p

\* C14: a failure of AddInvoice while the invoices are topped up is tolerated:
\* the response of a request for a Client that has unsettled invoices still
\* carries Light-Auth-Invoices listing those invoices.
C14_TopUpFailureTolerated ==
    [][\A r \in Reqs :
        (/\ Arrives(r)
         /\ req'[r].route \in DOMAIN RouteInfo
         /\ req'[r].client \in DOMAIN clients[req'[r].route]
         /\ Unsettled(ClientBefore(req'[r])) # {})
            => /\ req'[r].hInvoices # <<>>
               /\ getInvoicesJSON(Unsettled(ClientBefore(req'[r])))
                    \subseteq req'[r].hInvoices[1]]_vars

\* the request ClearRequest prepared with invoice n has been answered 200 with
\* Light-Auth-Invoice echoing n, and the server has claimed n
Answered(n) ==
    /\ app.pc = "sent"
    /\ req[app.slot].pc = "done"
    /\ req[app.slot].status = StatusOK
    /\ req[app.slot].inv = PayReq(n)
    /\ req[app.slot].hInvoice = PayReq(n)
    /\ \E k \in SrvKeys : k[3] = PayReq(n) /\ SrvAt(k).Settled /\ SrvAt(k).Claimed

\* the client holds invoice n as Claimed
ClientClaimed(n) ==
    \E k \in CliKeys : CliAt(k).PaymentRequest = PayReq(n) /\ CliAt(k).Claimed

\* ReadResponse is called in this step on the response of the request sent
ReadStep == app.pc = "sent" /\ app'.pc = "idle"

\* C15: the discrete happy path completes: once the request that ClearRequest
\* prepared with a settled invoice has been answered 200 with
\* Light-Auth-Invoice echoing the invoice and the server has claimed it,
\* ReadResponse of that response leaves the invoice Claimed on the client.
C15_HappyPathCompletes ==
    [][\A n \in InvIds :
        (ReadStep /\ Answered(n)) => ClientClaimed(n)']_vars

\* the wait loop of ClearRequest ends in this step
LeavesWait == app.pc = "wait" /\ app'.pc # "wait"

\* C16: ClearRequest always terminates. Its wait loop ends only when
\* canRequest() holds or more than the 500 ms threshold has elapsed, it does
\* end under fair scheduling even when no settlement arrives, and in time mode
\* the call then returns the request with the Path's token and no error.
C16_WaitLoopTerminates ==
    /\ [][LeavesWait =>
            LET p == clientStore[app.url]
            IN  /\ \/ canRequest(p, now)
                   \/ now - app.start > Millisecond * lOOPTHRESHOLD
                /\ p.Mode = "time" =>
                        /\ app'.pc = "ready"
                        /\ ~app'.err
                        /\ app'.token = p.Token]_vars
    /\ (app.pc = "wait") ~> (app.pc # "wait")

\* ClearRequest has returned a request for the time route although the local
\* expiration time had passed before the wait began and no settlement moved it:
\* the loop ended by the threshold
C16_Witness ==
    /\ app.pc = "ready"
    /\ ~app.err
    /\ clientStore[app.url].Mode = "time"
    /\ app.token = clientStore[app.url].Token
    /\ clientStore[app.url].LocalExpirationTime <= app.start
    /\ now - app.start > Millisecond * lOOPTHRESHOLD

\* C17: when ClearRequest returns for a discrete Path without error, the
\* request carries the Path's token and the payment request and hex pre-image
\* of one invoice of the Path that is Settled and not Claimed, the pre-image
\* being the stored one (it hashes to the invoice's payment hash), and the
\* request is sent with these headers; when the Path has no such invoice the
\* call returns an error.
C17_DiscreteProofAttached ==
    [][/\ (LeavesWait /\ clientStore[app.url].Mode = "discrete") =>
            LET p == clientStore[app.url]
                ok == {h \in DOMAIN p.Invoices :
                        p.Invoices[h].Settled /\ ~p.Invoices[h].Claimed}
            IN  /\ app'.err <=> ok = {}
                /\ app'.err <=> app'.pc = "idle"
                /\ ~app'.err =>
                    /\ app'.pc = "ready"
                    /\ app'.token = p.Token
                    /\ \E h \in ok :
                        /\ app'.inv = p.Invoices[h].PaymentRequest
                        /\ app'.pre = HexEncode(p.Invoices[h].PreImage)
                        /\ ~HexDecode(app'.pre).err
                        /\ Sha256(HexDecode(app'.pre).bytes) = p.Invoices[h].PaymentHash
       /\ \A r \in Reqs :
            (Arrives(r) /\ app.pc = "ready") =>
                /\ req'[r].token = app.token
                /\ req'[r].inv = app.inv
                /\ req'[r].pre = app.pre]_vars

\* ClearRequest has returned a request with the proof of a settled invoice
\* while the Path also holds an invoice that is not settled
C17_Witness ==
    /\ app.pc = "ready"
    /\ clientStore[app.url].Mode = "discrete"
    /\ app.inv # EmptyStr
    /\ app.pre # EmptyStr
    /\ \E h \in DOMAIN clientStore[app.url].Invoices :
            ~clientStore[app.url].Invoices[h].Settled

\* C18: once discovery has created the Path of a URL, the Path stays in the
\* store with the same token, mode and URL; a discovery GET is only ever sent
\* for a URL that has no Path; and a later ClearRequest for the URL goes
\* straight to payment and waiting with the token of that Path, sending nothing.
C18_NoRediscovery ==
    [][/\ \A u \in DOMAIN clientStore :
            /\ u \in DOMAIN clientStore'
            /\ clientStore'[u].Token = clientStore[u].Token
            /\ clientStore'[u].Mode = clientStore[u].Mode
            /\ clientStore'[u].URL = clientStore[u].URL
       /\ (app.pc # "discovering" /\ app'.pc = "discovering")
            => app'.url \notin DOMAIN clientStore
       /\ \A r \in Reqs :
            (Arrives(r) /\ req'[r].origin = "lib" /\ req'[r].token = EmptyStr)
                => /\ app'.pc = "discovering"
                   /\ app'.url \notin DOMAIN clientStore
       /\ (app.pc = "idle" /\ app'.pc = "wait")
            => /\ app'.url \in DOMAIN clientStore
               /\ app'.token = clientStore[app'.url].Token
               /\ clientStore' = clientStore
               /\ req' = req]_vars

\* a ClearRequest for a URL whose Path holds a claimed invoice, the trace of
\* an earlier round of ClearRequest and ReadResponse, is waiting
C18_Witness ==
    /\ app.pc = "wait"
    /\ app.url \in DOMAIN clientStore
    /\ app.token = clientStore[app.url].Token
    /\ \E h \in DOMAIN clientStore[app.url].Invoices :
            clientStore[app.url].Invoices[h].Claimed

\* this step is a call of ReadResponse for a URL that has no Path
StrayRead ==
    /\ app.pc = "idle" /\ app'.pc = "idle"
    /\ app' # app
    /\ app'.url # ""
    /\ app'.url \notin DOMAIN clientStore

\* C19: ReadResponse for a URL that has no Path returns an error and changes
\* nothing: no Path is created, no invoice is added, no flag and no
\* expiration time of any Path is modified.
C19_NotConfigured ==
    [][StrayRead =>
        /\ app'.err
        /\ clientStore' = clientStore
        /\ UNCHANGED <<clients, nextInv, paid, serverStream, clientStream, req>>]_vars

\* ReadResponse was called for a URL without a Path while the store holds the
\* Path of another URL with a settled invoice
C19_Witness ==
    /\ app.pc = "idle"
    /\ app.url = StrayURL
    /\ app.err
    /\ StrayURL \notin DOMAIN clientStore
    /\ \E k \in CliKeys : CliAt(k).Settled

\* what ReadResponse has to do with a 200 response s for the Path of app.url
Synchronized(s) ==
    LET p == clientStore[app.url]
        p1 == clientStore'[app.url]
    IN  /\ ~app'.err
        /\ p.Mode = "time" =>
                /\ s.hExp # <<>>
                /\ p1.SyncExpirationTime = s.hExp[1]
        /\ p.Mode = "discrete" =>
                \A h \in DOMAIN p1.Invoices :
                    p1.Invoices[h].Claimed <=>
                        \/ p1.Invoices[h].PaymentRequest = s.hInvoice
                        \/ h \in DOMAIN p.Invoices /\ p.Invoices[h].Claimed

\* C20: ReadResponse on a response with status 200 returns no error and
\* synchronizes the Path: in time mode SyncExpirationTime becomes the value of
\* Light-Auth-Expiration-Time, in discrete mode exactly the invoice named by
\* Light-Auth-Invoice becomes Claimed and no other Claimed flag changes.
C20_OkResponseSynchronizes ==
    [][(ReadStep /\ req[app.slot].status = StatusOK)
            => Synchronized(req[app.slot])]_vars

\* the status codes of the responses that refuse a request
ErrorCodes ==
    {StatusBadRequest, StatusPaymentRequired, StatusConflict, StatusInternalServerError}

\* C21: ReadResponse on a response with status 400, 402, 409 or 500 returns
\* an error and leaves SyncExpirationTime, LocalExpirationTime and every held
\* invoice (its Settled and Claimed flags, its pre-image) as they were; the
\* only change it may make is to add advertised invoices the Path did not
\* hold, as unsettled and unclaimed.
C21_ErrorResponseKeepsBalance ==
    [][(ReadStep /\ req[app.slot].status \in ErrorCodes) =>
        LET p == clientStore[app.url]
            p1 == clientStore'[app.url]
            s == req[app.slot]
        IN  /\ app'.err
            /\ DOMAIN clientStore' = DOMAIN clientStore
            /\ p1.SyncExpirationTime = p.SyncExpirationTime
            /\ p1.LocalExpirationTime = p.LocalExpirationTime
            /\ \A h \in DOMAIN p.Invoices :
                    h \in DOMAIN p1.Invoices /\ p1.Invoices[h] = p.Invoices[h]
            /\ \A h \in DOMAIN p1.Invoices \ DOMAIN p.Invoices :
                    /\ ~p1.Invoices[h].Settled /\ ~p1.Invoices[h].Claimed
                    /\ s.hInvoices # <<>>
                    /\ \E j \in s.hInvoices[1] :
                            j.payment_request = p1.Invoices[h].PaymentRequest]_vars

\* ReadResponse has returned an error for the discrete Path and has added
\* invoice 3 to it, next to a settled invoice that it left settled: the
\* response was a refusal that advertised a new invoice
C21_Witness ==
    /\ app.pc = "idle" /\ app.err
    /\ "h/d" \in DOMAIN clientStore
    /\ getPaymentHash(PayReq(3)) \in DOMAIN clientStore["h/d"].Invoices
    /\ \E h \in DOMAIN clientStore["h/d"].Invoices :
            /\ clientStore["h/d"].Invoices[h].Settled
            /\ ~clientStore["h/d"].Invoices[h].Claimed

\* C22: for every time-mode Path, in every state after discovery,
\* LocalExpirationTime >= SyncExpirationTime.
C22_LocalNotBehindSync ==
    \A u \in DOMAIN clientStore :
        clientStore[u].Mode = "time"
            => clientStore[u].LocalExpirationTime >= clientStore[u].SyncExpirationTime

\* C23: on the server and on the client, every invoice on which
\* Invoice.settle has set a pre-image holds a pre-image whose SHA-256 is the
\* invoice's payment hash.
C23_PreImageMatchesHash ==
    /\ \A k \in SrvKeys :
            SrvAt(k).Settled => Sha256(SrvAt(k).PreImage) = SrvAt(k).PaymentHash
    /\ \A k \in CliKeys :
            CliAt(k).Settled => Sha256(CliAt(k).PreImage) = CliAt(k).PaymentHash

\* the server reconciler handles, in this step, a Settled notification for an
\* invoice that the server already holds as Settled
SettlesAgain ==
    /\ serverStream # <<>>
    /\ serverStream' = Tail(serverStream)
    /\ Head(serverStream).Settled
    /\ \E k \in SrvKeys :
            k[3] = Head(serverStream).PaymentRequest /\ SrvAt(k).Settled

\* C24: server-side settlement is idempotent: handling a Settled
\* notification for an invoice that is already Settled changes neither the
\* invoice's flags nor the owning Client's ExpirationTime.
C24_SettlementIdempotent ==
    [][SettlesAgain => clients' = clients]_vars

\* C25: a reconciler loop that reads an error other than io.EOF from its
\* stream logs it and keeps consuming: the round changes no store and does
\* not end the process.
C25_TransportErrorTolerated ==
    [][/\ (/\ clientStream # <<>>
           /\ recvErr(Head(clientStream)) = "transport"
           /\ clientStream' = Tail(clientStream))
            => /\ app' = app
               /\ clientStore' = clientStore
       /\ (/\ serverStream # <<>>
           /\ recvErr(Head(serverStream)) = "transport"
           /\ serverStream' = Tail(serverStream))
            => /\ app' = app
               /\ clients' = clients]_vars

\* an access to a guarded field: the entity that owns the field, and whether
\* the mutex of that entity is held where the access is made
Access(entity, field, kind, held) ==
    [entity |-> entity, field |-> field, kind |-> kind, held |-> held]

\* the accesses each piece of code makes to Settled, Claimed, PreImage,
\* ExpirationTime, LocalExpirationTime and SyncExpirationTime
Accesses(site, mode) ==
    CASE site = "timeTypeValidator" ->
            \* c.ExpirationTime.Before(t)
            {Access("Client", "ExpirationTime", "read", FALSE)}
      [] site = "discreteTypeValidator" ->
            \* i.isClaimed(), i.isSettled(), i.claim()
            {Access("Invoice", "Claimed", "read", TRUE),
             Access("Invoice", "Settled", "read", TRUE),
             Access("Invoice", "Claimed", "write", TRUE)}
      [] site = "updateInvoice" ->
            \* i.settle, c.getExpirationTime, c.setExpirationTime
            {Access("Invoice", "Settled", "write", TRUE),
             Access("Invoice", "PreImage", "write", TRUE)}
            \cup (IF mode = "time"
                  THEN {Access("Client", "ExpirationTime", "read", TRUE),
                        Access("Client", "ExpirationTime", "write", TRUE)}
                  ELSE {})
      [] site = "ClearRequest" ->
            \* routeStore.SyncExpirationTime.Before(time.Now()) and
            \* getUnclaimedInvoices: v.Settled && !v.Claimed; then v.isSettled()
            (IF mode = "time"
             THEN {Access("Path", "SyncExpirationTime", "read", FALSE)}
             ELSE {Access("Invoice", "Settled", "read", FALSE),
                   Access("Invoice", "Claimed", "read", FALSE)})
            \cup {Access("Invoice", "Settled", "read", TRUE)}
      [] site = "confirmInvoiceSettled" ->
            \* invoice.settle(preImage), store.updateBalance()
            {Access("Invoice", "Settled", "write", TRUE),
             Access("Invoice", "PreImage", "write", TRUE)}
            \cup (IF mode = "time"
                  THEN {Access("Path", "LocalExpirationTime", "read", TRUE),
                        Access("Path", "LocalExpirationTime", "write", TRUE)}
                  ELSE {})
      [] site = "ReadResponse" ->
            \* store.setSyncExpirationTime, claimedInvoice.claim()
            IF mode = "time"
            THEN {Access("Path", "SyncExpirationTime", "write", TRUE)}
            ELSE {Access("Invoice", "Claimed", "write", TRUE)}

Sites ==
    {"timeTypeValidator", "discreteTypeValidator", "updateInvoice",
     "ClearRequest", "confirmInvoiceSettled", "ReadResponse"}

\* the step runs the code of the site, against a route or Path of the mode
Runs(site, mode) ==
    CASE site \in {"timeTypeValidator", "discreteTypeValidator"} ->
            /\ site = (IF mode = "time" THEN "timeTypeValidator"
                                        ELSE "discreteTypeValidator")
            /\ \E r \in Reqs :
                /\ req[r].pc = "validate"
                /\ RouteInfo[req[r].route].Mode = mode
                /\ req'[r] # req[r]
      [] site = "updateInvoice" ->
            /\ serverStream # <<>>
            /\ serverStream' = Tail(serverStream)
            /\ recvErr(Head(serverStream)) = ""
            /\ Head(serverStream).Settled
            /\ \E rt \in DOMAIN clients : \E t \in DOMAIN clients[rt] :
                /\ RouteInfo[rt].Mode = mode
                /\ Head(serverStream).PaymentRequest
                       \in DOMAIN clients[rt][t].Invoices
      [] site = "ClearRequest" ->
            /\ app.pc \in {"idle", "discovering"}
            /\ app'.pc = "wait"
            /\ clientStore'[app'.url].Mode = mode
      [] site = "confirmInvoiceSettled" ->
            /\ clientStream # <<>>
            /\ clientStream' = Tail(clientStream)
            /\ clientStore' # clientStore
            /\ \E u \in DOMAIN clientStore :
                clientStore'[u] # clientStore[u] /\ clientStore[u].Mode = mode
      [] site = "ReadResponse" ->
            /\ app.pc = "sent"
            /\ app'.pc = "idle"
            /\ ~app'.err
            /\ app.url \in DOMAIN clientStore
            /\ clientStore[app.url].Mode = mode

\* C26: every read and every write of Settled, Claimed, PreImage,
\* ExpirationTime, LocalExpirationTime and SyncExpirationTime that a step of
\* the validators, the reconcilers, ClearRequest or ReadResponse makes is
\* made with the mutex of the owning entity held.
C26_AccessesHoldMutex ==
    [][\A site \in Sites : \A mode \in {"time", "discrete"} :
          Runs(site, mode) => \A a \in Accesses(site, mode) : a.held]_vars

\* C27: the ExpirationTime of an existing Client of a time route changes only
\* in a round of the server's reconciler that reads the settlement of one of
\* the Client's invoices, and then to the additive extension of the value it
\* had (no update is lost); a step of an HTTP request, header emission or
\* validator, whatever its status, leaves it as it was.
C27_OnlyReconcilerMovesExpiration ==
    [][\A tok \in DOMAIN clients["GET/t"] :
        LET old == clients["GET/t"][tok].ExpirationTime
            new == clients'["GET/t"][tok].ExpirationTime
        IN  /\ req' # req => new = old
            /\ new # old =>
                /\ serverStream # <<>>
                /\ serverStream' = Tail(serverStream)
                /\ Head(serverStream).Settled
                /\ Head(serverStream).PaymentRequest
                       \in DOMAIN clients["GET/t"][tok].Invoices
                /\ new = Max(old, now) + Second]_vars

\* a Client whose window was extended by two settlements, neither lost, has
\* been served
C27_Witness ==
    /\ \E r \in Reqs :
        /\ req[r].pc = "done"
        /\ req[r].route = "GET/t"
        /\ req[r].status = StatusOK
        /\ req[r].client \in DOMAIN clients["GET/t"]
        /\ LET c == clients["GET/t"][req[r].client]
           IN  /\ SettledCount(c.Invoices) = 2
               /\ c.ExpirationTime >= c.Created + 2 * Second

\* the responses the node has queued during the step
Queued == SubSeq(clientStream', Len(clientStream) + 1, Len(clientStream'))

\* C28: a call of ClearRequest for a Path that has balance (time mode:
\* SyncExpirationTime not before now; discrete mode: an invoice settled and
\* not claimed) submits no payment; for a Path without balance it submits one
\* SendRequest for each invoice that is neither settled nor expired and for no
\* other, all of them before any settlement is read.
C28_PaysOnlyWithoutBalance ==
    [][(app.pc = "idle" /\ app'.pc = "wait") =>
        LET p == clientStore[app'.url]
            balance == IF p.Mode = "time"
                       THEN ~(p.SyncExpirationTime < now)
                       ELSE \E h \in DOMAIN p.Invoices :
                               p.Invoices[h].Settled /\ ~p.Invoices[h].Claimed
            due == {InvId(p.Invoices[h].PaymentRequest) :
                      h \in {k \in DOMAIN p.Invoices :
                               /\ ~p.Invoices[k].Settled
                               /\ ~(p.Invoices[k].ExpirationTime < now)}}
            sent == IF balance THEN {} ELSE due
        IN  /\ Len(clientStream') = Len(clientStream) + Cardinality(sent)
            /\ paid' = paid \cup sent
            /\ {Queued[k].PaymentPreimage :
                  k \in {j \in DOMAIN Queued : Queued[j].PaymentError = ""}}
                 = {PreImageOf(n) : n \in sent \ paid}
            /\ Cardinality({j \in DOMAIN Queued : Queued[j].PaymentError # ""})
                 = Cardinality(sent \cap paid)
            /\ clientStore' = clientStore]_vars

\* ClearRequest has paid the one invoice of a Path without balance that was
\* due, and not the one that had expired
C28_Witness ==
    /\ app.pc = "wait"
    /\ Len(clientStream) = 1
    /\ LET p == clientStore[app.url]
       IN  /\ Cardinality(DOMAIN p.Invoices) = 2
           /\ \A h \in DOMAIN p.Invoices : ~p.Invoices[h].Settled
           /\ \E h \in DOMAIN p.Invoices : p.Invoices[h].ExpirationTime < now

\* C29: a round of the client's reconciler on a response with a pre-image
\* settles, in exactly one of the Paths that hold the invoice whose payment
\* hash is SHA-256 of the pre-image, that invoice, stores the pre-image on it
\* and, in time mode, extends the LocalExpirationTime of that Path; it changes
\* nothing else. A response with a PaymentError, or with a pre-image no Path
\* holds the invoice of, changes nothing.
C29_ConfirmsOnOnePath ==
    [][(clientStream # <<>> /\ clientStream' = Tail(clientStream)
            /\ recvErr(Head(clientStream)) = "") =>
        LET m == Head(clientStream)
            h == HexEncode(Sha256(m.PaymentPreimage))
            held == {u \in DOMAIN clientStore : h \in DOMAIN clientStore[u].Invoices}
        IN  IF m.PaymentError # "" \/ held = {}
            THEN clientStore' = clientStore
            ELSE \E u \in held :
                 clientStore' =
                    [clientStore EXCEPT
                        ![u].Invoices[h].Settled = TRUE,
                        ![u].Invoices[h].PreImage = m.PaymentPreimage,
                        ![u].LocalExpirationTime =
                            IF clientStore[u].Mode = "time"
                            THEN Max(@, now) + PeriodDuration(clientStore[u].TimePeriod)
                            ELSE @]]_vars

\* the response has been read while both Paths held its invoice unsettled:
\* one Path has it settled with the pre-image, the other still unsettled
C29_Witness ==
    /\ clientStream = <<>>
    /\ DOMAIN clientStore = {"h/d", "h/t"}
    /\ \E h \in DOMAIN clientStore["h/d"].Invoices \cap DOMAIN clientStore["h/t"].Invoices :
        /\ clientStore["h/t"].Invoices[h].Settled
        /\ h = HexEncode(Sha256(clientStore["h/t"].Invoices[h].PreImage))
        /\ clientStore["h/t"].LocalExpirationTime = 3 * Second
        /\ ~clientStore["h/d"].Invoices[h].Settled

\* C30: ReadResponse leaves every invoice the Path holds in place, with its
\* Settled flag and its pre-image, also when the response advertises it again
\* (its Claimed flag changes only if the response echoes it as the invoice
\* claimed); the invoices it adds are advertised ones whose payment hash the
\* Path did not hold, unsettled and without pre-image, and when the response
\* is readable every such advertised invoice is added.
C30_HarvestDeduplicated ==
    [][ReadStep =>
        LET p == clientStore[app.url]
            p1 == clientStore'[app.url]
            s == req[app.slot]
            listed == IF s.hInvoices = <<>> THEN {}
                      ELSE {j.payment_request : j \in s.hInvoices[1]}
        IN  /\ \A h \in DOMAIN p.Invoices :
                /\ h \in DOMAIN p1.Invoices
                /\ \/ p1.Invoices[h] = p.Invoices[h]
                   \/ /\ p1.Invoices[h] = [p.Invoices[h] EXCEPT !.Claimed = TRUE]
                      /\ p.Invoices[h].PaymentRequest = s.hInvoice
                      /\ s.status = StatusOK
            /\ \A h \in DOMAIN p1.Invoices \ DOMAIN p.Invoices :
                /\ p1.Invoices[h].PaymentRequest \in listed
                /\ h = getPaymentHash(p1.Invoices[h].PaymentRequest)
                /\ ~p1.Invoices[h].Settled
                /\ p1.Invoices[h].PreImage = <<>>
                /\ p1.Invoices[h].Claimed => p1.Invoices[h].PaymentRequest = s.hInvoice
            /\ (s.hStatus # <<>> /\ s.hConst /\ s.hInvoices # <<>>)
                => \A q \in listed : getPaymentHash(q) \in DOMAIN p1.Invoices]_vars

\* ReadResponse has read a 200 response for the time Path that advertised
\* invoices 2 and 3: invoice 2, held and settled, still is, with its
\* pre-image, and invoice 3 has been added unsettled
C30_Witness ==
    /\ app.pc = "idle" /\ ~app.err
    /\ "h/t" \in DOMAIN clientStore
    /\ LET inv == clientStore["h/t"].Invoices
           h2 == getPaymentHash(PayReq(2))
           h3 == getPaymentHash(PayReq(3))
       IN  /\ h2 \in DOMAIN inv /\ h3 \in DOMAIN inv
           /\ inv[h2].Settled /\ inv[h2].PreImage = PreImageOf(2)
           /\ ~inv[h3].Settled /\ ~inv[h3].Claimed

\* C31: when the time validator runs for a request, the
\* Light-Auth-Expiration-Time header of the response carries the
\* ExpirationTime the validator compares with now (as the header's format
\* writes it), so a 200 response advertises a time the validator accepts.
C31_HeaderIsValidatedTime ==
    [][\A r \in Reqs :
        (/\ req[r].pc = "validate"
         /\ req'[r] # req[r]
         /\ RouteInfo[req[r].route].Mode = "time")
            => LET exp == clients[req[r].route][req[r].client].ExpirationTime
               IN  /\ req[r].hExp = <<FormatRFC3339(exp)>>
                   /\ req'[r].status = StatusOK
                        => req'[r].hExp = <<FormatRFC3339(exp)>>]_vars

\* thread t is blocked in Lock
Blocked(t) ==
    /\ mux.todo[t] # <<>>
    /\ Head(mux.todo[t]).op = "Lock"
    /\ mux.owner[Head(mux.todo[t]).mux] # <<"free", 0>>

\* C32: no thread holds two entity mutexes at the same time, and no thread
\* waits for a mutex whose holder is itself waiting: the handlers, the
\* application thread and the two reconcilers cannot deadlock.
C32_OneMutexAtATime ==
    \A t \in Threads :
        /\ Cardinality(HeldBy(t)) <= 1
        /\ Blocked(t) => ~Blocked(mux.owner[Head(mux.todo[t]).mux])
        /\ Blocked(t) => mux.owner[Head(mux.todo[t]).mux] # t

\* the server loop holds the mutex of an invoice inside settle while a
\* request handler waits for it in isSettled, and the client loop holds the
\* Path's mutex while the application waits for it
C32_Witness ==
    /\ \E n \in MuxInvoices, h \in Handlers :
        /\ mux.owner[<<"Invoice", n>>] = <<"serverLoop", 0>>
        /\ Blocked(h)
        /\ Head(mux.todo[h]).mux = <<"Invoice", n>>
    /\ mux.owner[<<"Path", 0>>] = <<"clientLoop", 0>>
    /\ Blocked(<<"app", 0>>)

\* the request thread r takes in this step comes from a new caller of the
\* discrete route: no token, no invoice, no pre-image
FirstRequest(r) ==
    /\ Arrives(r)
    /\ req'[r].route = "GET/d"
    /\ req'[r].token = EmptyStr
    /\ req'[r].inv = EmptyStr
    /\ req'[r].pre = EmptyStr

\* the response to thread r carries a token no Client had before and
\* MaxInvoices invoices that were issued for it
Onboarded(r) ==
    /\ req'[r].hToken \notin DOMAIN clients["GET/d"]
    /\ req'[r].hToken \in DOMAIN clients'["GET/d"]
    /\ req'[r].hInvoices # <<>>
    /\ Cardinality(req'[r].hInvoices[1]) = RouteInfo["GET/d"].MaxInvoices
    /\ nextInv' - nextInv = RouteInfo["GET/d"].MaxInvoices

\* C33: the first request of a new caller to the discrete route, when nothing
\* fails, is answered 402 with a freshly minted token and MaxInvoices newly
\* issued invoices.
C33_FirstRequestPaymentRequired ==
    [][\A r \in Reqs :
        (FirstRequest(r) /\ faults' = faults)
            => /\ req'[r].pc = "done"
               /\ req'[r].status = StatusPaymentRequired
               /\ Onboarded(r)]_vars

\* C34: no Client record ever has more unsettled invoices than the
\* MaxInvoices of its route, also when requests with the same token run
\* header emission at the same time.
C34_UnsettledBounded ==
    \A rt \in DOMAIN clients : \A tok \in DOMAIN clients[rt] :
        Cardinality(Unsettled(clients[rt][tok])) <= RouteInfo[rt].MaxInvoices

\* C35: every invoice a response lists in Light-Auth-Invoices is in the
\* invoice map of the Client the response was written for, also when saving
\* an invoice of the batch failed.
C35_ListedInvoicesAreStored ==
    \A r \in Reqs :
        (req[r].hInvoices # <<>> /\ req[r].client # EmptyStr)
            => \A j \in req[r].hInvoices[1] :
                 j.payment_request
                    \in DOMAIN clients[req[r].route][req[r].client].Invoices

\* C36: a call of ClearRequest submits no payment for an invoice of the Path
\* it has submitted a payment for before (the node, which only this client
\* pays, has been paid it) and whose settlement it has not read yet: none of
\* the SendRequests of the call is a second one for its invoice.
C36_PaysAtMostOnce ==
    [][(app.pc \in {"idle", "discovering"} /\ app'.pc = "wait") =>
        /\ Len(clientStream') - Len(clientStream) = Cardinality(paid' \ paid)
        /\ \A k \in DOMAIN Queued : Queued[k].PaymentError = ""]_vars

\* C37: when discovery inside ClearRequest fails, ClearRequest returns an
\* error and leaves the Path table as it was, without a Path for the URL.
C37_FailedDiscoveryLeavesNoPath ==
    [][(app.pc = "discovering" /\ app'.pc = "idle" /\ app'.err) =>
        /\ clientStore' = clientStore
        /\ app.url \notin DOMAIN clientStore']_vars

\* the request of thread state s names, with the right pre-image, an invoice
\* that store holds for another token than the request's own
NamesForeignInvoice(s, store) ==
    /\ s.route = "GET/d"
    /\ s.client \in DOMAIN store[s.route]
    /\ s.inv \notin DOMAIN store[s.route][s.client].Invoices
    /\ \E tok \in DOMAIN store[s.route] :
        /\ tok # s.client
        /\ s.inv \in DOMAIN store[s.route][tok].Invoices
        /\ ~HexDecode(s.pre).err
        /\ Sha256(HexDecode(s.pre).bytes) = store[s.route][tok].Invoices[s.inv].PaymentHash

\* C38: a discrete request that names an invoice of another token's Client,
\* even with the valid pre-image of that invoice and when it is settled, is
\* answered 400 "Invalid credentials" without running the handler, and no
\* invoice that existed changes.
C38_ForeignInvoiceRejected ==
    [][\A r \in Reqs :
        (Arrives(r) /\ NamesForeignInvoice(req'[r], clients') /\ req'[r].status # 500)
            => /\ req'[r].pc = "done"
               /\ req'[r].status = StatusBadRequest
               /\ req'[r].msg = "Lightauth error: Invalid credentials"
               /\ req'[r].handler = 0
               /\ req'[r].hInvoice = EmptyStr
               /\ \A k \in SrvKeys :
                    clients'[k[1]][k[2]].Invoices[k[3]] = SrvAt(k)]_vars

\* a request under one token that named a settled, unclaimed invoice of
\* another token with its pre-image has been answered 400
C38_Witness ==
    \E r \in Reqs :
        /\ req[r].pc = "done"
        /\ req[r].status = StatusBadRequest
        /\ NamesForeignInvoice(req[r], clients)
        /\ \E tok \in DOMAIN clients["GET/d"] :
            /\ req[r].inv \in DOMAIN clients["GET/d"][tok].Invoices
            /\ clients["GET/d"][tok].Invoices[req[r].inv].Settled
            /\ ~clients["GET/d"][tok].Invoices[req[r].inv].Claimed

\* C39: an invoice that a Path of the client marks Claimed is an invoice of
\* the server's Client record of the Path's token, and is marked Claimed
\* there.
C39_ClientClaimsBehindServer ==
    \A k \in CliKeys :
        CliAt(k).Claimed =>
            LET rt == RouteOf(k[1])
                tok == clientStore[k[1]].Token
                pr == CliAt(k).PaymentRequest
            IN  /\ tok \in DOMAIN clients[rt]
                /\ pr \in DOMAIN clients[rt][tok].Invoices
                /\ clients[rt][tok].Invoices[pr].Claimed

\* the client has marked an invoice Claimed after a 200 response that echoed
\* it, and still holds another invoice that is not claimed
C39_Witness ==
    \E k \in CliKeys :
        /\ CliAt(k).Claimed
        /\ CliAt(k).Settled
        /\ \E j \in CliKeys : j[1] = k[1] /\ ~CliAt(j).Claimed

\* C40: a Path in the table is never replaced: every step keeps its key and
\* its token, keeps every invoice it holds, and keeps settled what was
\* settled.
C40_PathNeverReplaced ==
    [][\A u \in DOMAIN clientStore :
          /\ u \in DOMAIN clientStore'
          /\ clientStore'[u].Token = clientStore[u].Token
          /\ \A h \in DOMAIN clientStore[u].Invoices :
                /\ h \in DOMAIN clientStore'[u].Invoices
                /\ clientStore[u].Invoices[h].Settled
                      => clientStore'[u].Invoices[h].Settled]_vars

====
